---- MODULE Spec2Model ----
(***************************************************************************)
(* Approval workflow of price submissions (core/services/approval_service, *)
(* core/views/approvals, core/views/submissions, core/models).             *)
(*                                                                         *)
(* The database is modelled as a row store read at READ COMMITTED:         *)
(* select_for_update() takes an exclusive row lock that is held until the  *)
(* enclosing transaction.atomic block exits; a plain read never blocks and *)
(* sees the last committed row; Model.save() without update_fields writes  *)
(* every column of the in-memory object, and waits while another           *)
(* transaction holds the row lock.                                         *)
(***************************************************************************)
EXTENDS Integers, Sequences, FiniteSets, TLC

\* ---------------------------------------------------------------- bounds
\* approve/cancel transitions committed on one submission
MaxTransitions == 3
\* disapprove transitions committed on one submission
MaxReverts == 1
\* largest expected_version a client sends
MaxVersion == 1
\* calls made one after the other in the sequential specification
MaxTrace == 5
\* submission ids posted to one bulk approve
MaxBatch == 2

None == "None"
\* Python None where the value is otherwise an integer (expected_version,
\* approved_at)
NoInt == -1

\* ------------------------------------------------------- reference data
Firms == {"F1", "F2"}
Categories == {"veg", "fruit"}
Locations == {"north", "south"}
Products == {"tomato"}
Farmers == {"ravi"}
\* prices a buyer enters in the grid
Prices == {1, 2}

\* auth.User with its UserProfile and role groups; su0 is a superuser that
\* has no UserProfile (seed_initial deletes every profile and keeps the
\* superusers)
UserTable ==
  [ su   |-> [is_superuser |-> TRUE,  has_profile |-> TRUE,  groups |-> {},                firm |-> None],
    su0  |-> [is_superuser |-> TRUE,  has_profile |-> FALSE, groups |-> {},                firm |-> None],
    adm  |-> [is_superuser |-> FALSE, has_profile |-> TRUE,  groups |-> {"ADMIN"},         firm |-> None],
    b1   |-> [is_superuser |-> FALSE, has_profile |-> TRUE,  groups |-> {"BUSINESS_HEAD"}, firm |-> "F1"],
    b2   |-> [is_superuser |-> FALSE, has_profile |-> TRUE,  groups |-> {"BUSINESS_HEAD"}, firm |-> "F2"],
    b0   |-> [is_superuser |-> FALSE, has_profile |-> TRUE,  groups |-> {"BUSINESS_HEAD"}, firm |-> None],
    buy1 |-> [is_superuser |-> FALSE, has_profile |-> TRUE,  groups |-> {"BUYER"},         firm |-> "F1"],
    np   |-> [is_superuser |-> FALSE, has_profile |-> FALSE, groups |-> {},                firm |-> None] ]

Users == DOMAIN UserTable

\* UserProfile.is_admin
is_admin(u) == UserTable[u].is_superuser \/ "ADMIN" \in UserTable[u].groups

\* UserProfile.is_business_head
is_business_head(u) == "BUSINESS_HEAD" \in UserTable[u].groups

\* UserProfile.is_buyer
is_buyer(u) == "BUYER" \in UserTable[u].groups

\* can_approve comparing the firm of the business head with the firm of the
\* submission
can_approve_FirmScoped(row, u) ==
  IF UserTable[u].is_superuser THEN TRUE
  ELSE IF UserTable[u].has_profile
       THEN is_business_head(u) /\ UserTable[u].firm = row.firm
  ELSE FALSE

\* PriceSubmission.can_approve
can_approve(row, u) ==
  IF UserTable[u].is_superuser THEN TRUE
  ELSE IF UserTable[u].has_profile THEN is_business_head(u)
  ELSE FALSE

\* PriceSubmission.can_edit
can_edit(row, u) ==
  IF UserTable[u].is_superuser THEN TRUE
  ELSE row.buyer = u /\ row.status = "PENDING"

\* ------------------------------------------------------------ the store
\* the one stored submission, and an id no row has
SubId == 1
MissingId == 2
Ids == {SubId, MissingId}

\* a PriceSubmission row as created by a buyer of firm f
NewSubmission(f) ==
  [ date |-> 1, firm |-> f, location |-> "north", farmer |-> "ravi",
    buyer |-> "buy1", category |-> "veg", product |-> "tomato",
    price_per_unit |-> 1, quantity |-> 1, unit |-> "kg",
    status |-> "PENDING", approved_by |-> None, approved_at |-> NoInt,
    approval_version |-> 0 ]

\* no model instance: the value of a variable that holds a row when no row
\* has been loaded
NoRow ==
  [NewSubmission(None) EXCEPT !.buyer = None, !.status = None]

VARIABLES
  db,                \* id -> committed PriceSubmission row
  product_category,  \* Product.category
  farmer_location,   \* Farmer.location
  lock,              \* id -> the process holding the row lock, or None
  pc,                \* process -> position in its request
  call,              \* process -> arguments of its request
  obj,               \* process -> the in-memory model instance it loaded
  res,               \* process -> outcome of the body of its request
  now,               \* timezone.now()
  transitions,       \* id -> approve/cancel transitions committed
  reverts,           \* id -> disapprove transitions committed
  trace              \* outcomes of the sequential client's calls

vars == <<db, product_category, farmer_location, lock, pc, call, obj, res,
          now, transitions, reverts, trace>>

Procs == {"p1", "p2"}

NoCall == [op |-> None, id |-> NoInt, user |-> None, ev |-> NoInt]
NoRes == [kind |-> None, expected |-> NoInt, actual |-> NoInt,
          saved |-> FALSE, row |-> NoRow]

\* PriceSubmission.clean
clean(row) ==
  IF product_category[row.product] # row.category THEN "product"
  ELSE IF farmer_location[row.farmer] # row.location THEN "farmer"
  ELSE "ok"

\* ------------------------------------------------- approval_service.py
\* outcome of a call that raised before save(): nothing is written
Failure(kind, row) ==
  [kind |-> kind, expected |-> NoInt, actual |-> NoInt, saved |-> FALSE, row |-> row]

\* FirmAccess without the comparison of the two firms
FirmAccess_NoComparison(row, u) ==
  IF UserTable[u].is_superuser THEN "ok"
  ELSE IF UserTable[u].has_profile /\ UserTable[u].firm # None
       THEN "ok"
       ELSE "ProfileNotConfigured"

\* "Check firm access for non-admin users" of approve_submission and
\* cancel_approval
FirmAccess(row, u) ==
  IF UserTable[u].is_superuser THEN "ok"
  ELSE IF UserTable[u].has_profile /\ UserTable[u].firm # None
       THEN IF row.firm # UserTable[u].firm THEN "FirmMismatch" ELSE "ok"
       ELSE "ProfileNotConfigured"

\* approve_submission saving the approved row before the firm check and
\* reporting the firm error without raising it
ApproveResult_SavesBeforeFirmCheck(row, u, ev, t) ==
  LET new == [row EXCEPT !.status = "APPROVED", !.approved_by = u,
                         !.approved_at = t, !.approval_version = @ + 1]
  IN IF ~can_approve(row, u) THEN Failure("Forbidden", row)
     ELSE IF ev # NoInt /\ row.approval_version # ev
          THEN [kind |-> "VersionConflict", expected |-> ev,
                actual |-> row.approval_version, saved |-> FALSE, row |-> row]
     ELSE IF row.status = "APPROVED" THEN Failure("AlreadyApproved", row)
     ELSE IF clean(new) # "ok" THEN Failure("ValidationError", row)
     ELSE IF FirmAccess(row, u) # "ok"
          THEN [kind |-> FirmAccess(row, u), expected |-> NoInt,
                actual |-> NoInt, saved |-> TRUE, row |-> new]
     ELSE [kind |-> "OK", expected |-> NoInt, actual |-> NoInt,
           saved |-> TRUE, row |-> new]

\* approve_submission without the check of the current status
ApproveResult_NoStatusCheck(row, u, ev, t) ==
  IF ~can_approve(row, u) THEN Failure("Forbidden", row)
  ELSE IF ev # NoInt /\ row.approval_version # ev
       THEN [kind |-> "VersionConflict", expected |-> ev,
             actual |-> row.approval_version, saved |-> FALSE, row |-> row]
  ELSE IF FirmAccess(row, u) # "ok" THEN Failure(FirmAccess(row, u), row)
  ELSE LET new == [row EXCEPT !.status = "APPROVED", !.approved_by = u,
                              !.approved_at = t,
                              !.approval_version = @ + 1]
       IN IF clean(new) # "ok" THEN Failure("ValidationError", row)
          ELSE [kind |-> "OK", expected |-> NoInt, actual |-> NoInt,
                saved |-> TRUE, row |-> new]

\* approve_submission accepting only a PENDING submission
ApproveResult_RejectsCancelled(row, u, ev, t) ==
  IF ~can_approve(row, u) THEN Failure("Forbidden", row)
  ELSE IF ev # NoInt /\ row.approval_version # ev
       THEN [kind |-> "VersionConflict", expected |-> ev,
             actual |-> row.approval_version, saved |-> FALSE, row |-> row]
  ELSE IF row.status # "PENDING" THEN Failure("AlreadyApproved", row)
  ELSE IF FirmAccess(row, u) # "ok" THEN Failure(FirmAccess(row, u), row)
  ELSE LET new == [row EXCEPT !.status = "APPROVED", !.approved_by = u,
                              !.approved_at = t,
                              !.approval_version = @ + 1]
       IN IF clean(new) # "ok" THEN Failure("ValidationError", row)
          ELSE [kind |-> "OK", expected |-> NoInt, actual |-> NoInt,
                saved |-> TRUE, row |-> new]

\* approve_submission checking the status before the version
ApproveResult_StatusBeforeVersion(row, u, ev, t) ==
  IF ~can_approve(row, u) THEN Failure("Forbidden", row)
  ELSE IF row.status = "APPROVED" THEN Failure("AlreadyApproved", row)
  ELSE IF ev # NoInt /\ row.approval_version # ev
       THEN [kind |-> "VersionConflict", expected |-> ev,
             actual |-> row.approval_version, saved |-> FALSE, row |-> row]
  ELSE IF FirmAccess(row, u) # "ok" THEN Failure(FirmAccess(row, u), row)
  ELSE LET new == [row EXCEPT !.status = "APPROVED", !.approved_by = u,
                              !.approved_at = t,
                              !.approval_version = @ + 1]
       IN IF clean(new) # "ok" THEN Failure("ValidationError", row)
          ELSE [kind |-> "OK", expected |-> NoInt, actual |-> NoInt,
                saved |-> TRUE, row |-> new]

\* approve_submission leaving approved_by as it was
ApproveResult_NoApprover(row, u, ev, t) ==
  IF ~can_approve(row, u) THEN Failure("Forbidden", row)
  ELSE IF ev # NoInt /\ row.approval_version # ev
       THEN [kind |-> "VersionConflict", expected |-> ev,
             actual |-> row.approval_version, saved |-> FALSE, row |-> row]
  ELSE IF row.status = "APPROVED" THEN Failure("AlreadyApproved", row)
  ELSE IF FirmAccess(row, u) # "ok" THEN Failure(FirmAccess(row, u), row)
  ELSE LET new == [row EXCEPT !.status = "APPROVED", !.approved_at = t,
                              !.approval_version = @ + 1]
       IN IF clean(new) # "ok" THEN Failure("ValidationError", row)
          ELSE [kind |-> "OK", expected |-> NoInt, actual |-> NoInt,
                saved |-> TRUE, row |-> new]

\* approve_submission saving the row without validating it
ApproveResult_NoClean(row, u, ev, t) ==
  IF ~can_approve(row, u) THEN Failure("Forbidden", row)
  ELSE IF ev # NoInt /\ row.approval_version # ev
       THEN [kind |-> "VersionConflict", expected |-> ev,
             actual |-> row.approval_version, saved |-> FALSE, row |-> row]
  ELSE IF row.status = "APPROVED" THEN Failure("AlreadyApproved", row)
  ELSE IF FirmAccess(row, u) # "ok" THEN Failure(FirmAccess(row, u), row)
  ELSE [kind |-> "OK", expected |-> NoInt, actual |-> NoInt, saved |-> TRUE,
        row |-> [row EXCEPT !.status = "APPROVED", !.approved_by = u,
                            !.approved_at = t, !.approval_version = @ + 1]]

\* approve_submission checking the firm before the status
ApproveResult_FirmBeforeStatus(row, u, ev, t) ==
  IF ~can_approve(row, u) THEN Failure("Forbidden", row)
  ELSE IF ev # NoInt /\ row.approval_version # ev
       THEN [kind |-> "VersionConflict", expected |-> ev,
             actual |-> row.approval_version, saved |-> FALSE, row |-> row]
  ELSE IF FirmAccess(row, u) # "ok" THEN Failure(FirmAccess(row, u), row)
  ELSE IF row.status = "APPROVED" THEN Failure("AlreadyApproved", row)
  ELSE LET new == [row EXCEPT !.status = "APPROVED", !.approved_by = u,
                              !.approved_at = t,
                              !.approval_version = @ + 1]
       IN IF clean(new) # "ok" THEN Failure("ValidationError", row)
          ELSE [kind |-> "OK", expected |-> NoInt, actual |-> NoInt,
                saved |-> TRUE, row |-> new]

\* ApprovalService.approve_submission on the locked row, at time t:
\* the checks in the order of the code, then the mutation and save()
ApproveResult(row, u, ev, t) ==
  IF ~can_approve(row, u) THEN Failure("Forbidden", row)
  ELSE IF ev # NoInt /\ row.approval_version # ev
       THEN [kind |-> "VersionConflict", expected |-> ev,
             actual |-> row.approval_version, saved |-> FALSE, row |-> row]
  ELSE IF row.status = "APPROVED" THEN Failure("AlreadyApproved", row)
  ELSE IF FirmAccess(row, u) # "ok" THEN Failure(FirmAccess(row, u), row)
  ELSE LET new == [row EXCEPT !.status = "APPROVED", !.approved_by = u,
                              !.approved_at = t,
                              !.approval_version = @ + 1]
       IN IF clean(new) # "ok" THEN Failure("ValidationError", row)
          ELSE [kind |-> "OK", expected |-> NoInt, actual |-> NoInt,
                saved |-> TRUE, row |-> new]

\* cancel_approval leaving approval_version as it was
CancelResult_NoIncrement(row, u, ev) ==
  IF ~can_approve(row, u) THEN Failure("Forbidden", row)
  ELSE IF ev # NoInt /\ row.approval_version # ev
       THEN [kind |-> "VersionConflict", expected |-> ev,
             actual |-> row.approval_version, saved |-> FALSE, row |-> row]
  ELSE IF row.status # "APPROVED" THEN Failure("NotApproved", row)
  ELSE IF FirmAccess(row, u) # "ok" THEN Failure(FirmAccess(row, u), row)
  ELSE [kind |-> "OK", expected |-> NoInt, actual |-> NoInt, saved |-> TRUE,
        row |-> [row EXCEPT !.status = "CANCELLED", !.approved_by = None,
                            !.approved_at = NoInt]]

\* cancel_approval without the check of the current status
CancelResult_NoStatusCheck(row, u, ev) ==
  IF ~can_approve(row, u) THEN Failure("Forbidden", row)
  ELSE IF ev # NoInt /\ row.approval_version # ev
       THEN [kind |-> "VersionConflict", expected |-> ev,
             actual |-> row.approval_version, saved |-> FALSE, row |-> row]
  ELSE IF FirmAccess(row, u) # "ok" THEN Failure(FirmAccess(row, u), row)
  ELSE LET new == [row EXCEPT !.status = "CANCELLED", !.approved_by = None,
                              !.approved_at = NoInt,
                              !.approval_version = @ + 1]
       IN IF clean(new) # "ok" THEN Failure("ValidationError", row)
          ELSE [kind |-> "OK", expected |-> NoInt, actual |-> NoInt,
                saved |-> TRUE, row |-> new]

\* cancel_approval leaving approved_by and approved_at as they were
CancelResult_KeepsApprover(row, u, ev) ==
  IF ~can_approve(row, u) THEN Failure("Forbidden", row)
  ELSE IF ev # NoInt /\ row.approval_version # ev
       THEN [kind |-> "VersionConflict", expected |-> ev,
             actual |-> row.approval_version, saved |-> FALSE, row |-> row]
  ELSE IF row.status # "APPROVED" THEN Failure("NotApproved", row)
  ELSE IF FirmAccess(row, u) # "ok" THEN Failure(FirmAccess(row, u), row)
  ELSE LET new == [row EXCEPT !.status = "CANCELLED",
                              !.approval_version = @ + 1]
       IN IF clean(new) # "ok" THEN Failure("ValidationError", row)
          ELSE [kind |-> "OK", expected |-> NoInt, actual |-> NoInt,
                saved |-> TRUE, row |-> new]

\* ApprovalService.cancel_approval on the locked row
CancelResult(row, u, ev) ==
  IF ~can_approve(row, u) THEN Failure("Forbidden", row)
  ELSE IF ev # NoInt /\ row.approval_version # ev
       THEN [kind |-> "VersionConflict", expected |-> ev,
             actual |-> row.approval_version, saved |-> FALSE, row |-> row]
  ELSE IF row.status # "APPROVED" THEN Failure("NotApproved", row)
  ELSE IF FirmAccess(row, u) # "ok" THEN Failure(FirmAccess(row, u), row)
  ELSE LET new == [row EXCEPT !.status = "CANCELLED", !.approved_by = None,
                              !.approved_at = NoInt,
                              !.approval_version = @ + 1]
       IN IF clean(new) # "ok" THEN Failure("ValidationError", row)
          ELSE [kind |-> "OK", expected |-> NoInt, actual |-> NoInt,
                saved |-> TRUE, row |-> new]

\* views/approvals.py disapprove_submission (POST) on the row it loaded
DisapproveResult(row, u) ==
  IF ~UserTable[u].has_profile THEN Failure("ServerError", row)
  ELSE IF ~(is_admin(u) \/ is_business_head(u)) THEN Failure("Forbidden", row)
  ELSE IF row.status # "APPROVED" THEN Failure("NotApproved", row)
  ELSE LET new == [row EXCEPT !.status = "PENDING", !.approved_by = None,
                              !.approved_at = NoInt]
       IN IF clean(new) # "ok" THEN Failure("ValidationError", row)
          ELSE [kind |-> "OK", expected |-> NoInt, actual |-> NoInt,
                saved |-> TRUE, row |-> new]

\* PriceSubmission.DoesNotExist (approval_service.py lines 88-89, 153-154)
NotFound ==
  [kind |-> "NotFound", expected |-> NoInt, actual |-> NoInt,
   saved |-> FALSE, row |-> NoRow]

\* exit of the transaction.atomic block: the saved row is committed when the
\* body returned, and nothing is when it raised
AtomicExit(store, id, r) ==
  IF r.saved THEN [store EXCEPT ![id] = r.row] ELSE store

ExpectedVersions == {NoInt} \cup (0 .. MaxVersion)

\* ------------------------------------------------------------- actions
Init ==
  /\ db = (SubId :> NewSubmission("F1"))
  /\ product_category \in [Products -> Categories]
  /\ farmer_location \in [Farmers -> Locations]
  /\ lock = [i \in {SubId} |-> None]
  /\ pc = [p \in Procs |-> "idle"]
  /\ call = [p \in Procs |-> NoCall]
  /\ obj = [p \in Procs |-> NoRow]
  /\ res = [p \in Procs |-> NoRes]
  /\ now = 1
  /\ transitions = [i \in {SubId} |-> 0]
  /\ reverts = [i \in {SubId} |-> 0]
  /\ trace = <<>>

\* get(id=submission_id) without select_for_update(): the row is loaded
\* whoever holds its lock
LockedGet_NoLock(p, c, position) ==
  IF c.id \notin DOMAIN db
  THEN /\ res' = [res EXCEPT ![p] = NotFound]
       /\ call' = [call EXCEPT ![p] = c]
       /\ pc' = [pc EXCEPT ![p] = position \o "_exit"]
       /\ UNCHANGED <<lock, obj>>
  ELSE /\ lock' = [lock EXCEPT ![c.id] = p]
       /\ obj' = [obj EXCEPT ![p] = db[c.id]]
       /\ call' = [call EXCEPT ![p] = c]
       /\ pc' = [pc EXCEPT ![p] = position]
       /\ UNCHANGED res

\* select_for_update().get(id=submission_id) of approve_submission (line 44)
\* and cancel_approval (line 113): waits for the row lock, then loads the row
LockedGet(p, c, position) ==
  IF c.id \notin DOMAIN db
  THEN /\ res' = [res EXCEPT ![p] = NotFound]
       /\ call' = [call EXCEPT ![p] = c]
       /\ pc' = [pc EXCEPT ![p] = position \o "_exit"]
       /\ UNCHANGED <<lock, obj>>
  ELSE /\ lock[c.id] = None
       /\ lock' = [lock EXCEPT ![c.id] = p]
       /\ obj' = [obj EXCEPT ![p] = db[c.id]]
       /\ call' = [call EXCEPT ![p] = c]
       /\ pc' = [pc EXCEPT ![p] = position]
       /\ UNCHANGED res

\* the end of a request: the process is ready for its next one
Return(p) ==
  /\ pc' = [pc EXCEPT ![p] = "idle"]
  /\ call' = [call EXCEPT ![p] = NoCall]
  /\ obj' = [obj EXCEPT ![p] = NoRow]
  /\ res' = [res EXCEPT ![p] = NoRes]

\* approve_submission line 44
ApproveGet(p) ==
  /\ pc[p] = "idle"
  /\ \A i \in DOMAIN db : transitions[i] < MaxTransitions
  /\ \E id \in Ids, u \in Users, ev \in ExpectedVersions :
       LockedGet(p, [op |-> "approve", id |-> id, user |-> u, ev |-> ev],
                 "approve")
  /\ UNCHANGED <<db, product_category, farmer_location, now, transitions,
                 reverts, trace>>

\* approve_submission lines 46-86: the checks, the mutation and save(),
\* inside the transaction
ApproveBody(p) ==
  /\ pc[p] = "approve"
  /\ res' = [res EXCEPT ![p] =
               ApproveResult(obj[p], call[p].user, call[p].ev, now)]
  /\ now' = IF res'[p].saved THEN now + 1 ELSE now
  /\ pc' = [pc EXCEPT ![p] = "approve_exit"]
  /\ UNCHANGED <<db, product_category, farmer_location, lock, call, obj,
                 transitions, reverts, trace>>

\* the atomic block of approve_submission exits (commit or rollback, the row
\* lock is released) and the call returns or raises
ApproveCommit(p) ==
  /\ pc[p] = "approve_exit"
  /\ db' = AtomicExit(db, call[p].id, res[p])
  /\ transitions' = IF res[p].saved
                    THEN [transitions EXCEPT ![call[p].id] = @ + 1]
                    ELSE transitions
  /\ lock' = [i \in DOMAIN lock |-> IF lock[i] = p THEN None ELSE lock[i]]
  /\ Return(p)
  /\ UNCHANGED <<product_category, farmer_location, now, reverts>>

ApproveExit(p) == ApproveCommit(p) /\ UNCHANGED trace

\* cancel_approval line 113
CancelGet(p) ==
  /\ pc[p] = "idle"
  /\ \A i \in DOMAIN db : transitions[i] < MaxTransitions
  /\ \E id \in Ids, u \in Users, ev \in ExpectedVersions :
       LockedGet(p, [op |-> "cancel", id |-> id, user |-> u, ev |-> ev],
                 "cancel")
  /\ UNCHANGED <<db, product_category, farmer_location, now, transitions,
                 reverts, trace>>

\* cancel_approval lines 115-151, inside the transaction
CancelBody(p) ==
  /\ pc[p] = "cancel"
  /\ res' = [res EXCEPT ![p] = CancelResult(obj[p], call[p].user, call[p].ev)]
  /\ pc' = [pc EXCEPT ![p] = "cancel_exit"]
  /\ UNCHANGED <<db, product_category, farmer_location, lock, call, obj, now,
                 transitions, reverts, trace>>

\* the atomic block of cancel_approval exits and the call returns
CancelExit(p) ==
  /\ pc[p] = "cancel_exit"
  /\ db' = AtomicExit(db, call[p].id, res[p])
  /\ transitions' = IF res[p].saved
                    THEN [transitions EXCEPT ![call[p].id] = @ + 1]
                    ELSE transitions
  /\ lock' = [i \in DOMAIN lock |-> IF lock[i] = p THEN None ELSE lock[i]]
  /\ Return(p)
  /\ UNCHANGED <<product_category, farmer_location, now, reverts, trace>>

\* disapprove_submission line 90: get_object_or_404, a plain read; an id
\* without a row is answered 404 at once
DisapproveGet(p) ==
  /\ pc[p] = "idle"
  /\ \A i \in DOMAIN db : reverts[i] < MaxReverts
  /\ \E id \in Ids, u \in Users :
       IF id \notin DOMAIN db
       THEN UNCHANGED <<pc, call, obj>>
       ELSE /\ obj' = [obj EXCEPT ![p] = db[id]]
            /\ call' = [call EXCEPT ![p] =
                          [op |-> "disapprove", id |-> id, user |-> u,
                           ev |-> NoInt]]
            /\ pc' = [pc EXCEPT ![p] = "disapprove"]
  /\ UNCHANGED <<db, product_category, farmer_location, lock, res, now,
                 transitions, reverts, trace>>

\* disapprove_submission lines 92-120: the checks on the loaded instance,
\* save() of all its columns, autocommitted, and the redirect; the UPDATE
\* waits for a row lock held elsewhere
DisapproveSave(p) ==
  /\ pc[p] = "disapprove"
  /\ LET r == DisapproveResult(obj[p], call[p].user)
     IN /\ r.saved => lock[call[p].id] = None
        /\ db' = IF r.saved THEN [db EXCEPT ![call[p].id] = r.row] ELSE db
        /\ reverts' = IF r.saved
                      THEN [reverts EXCEPT ![call[p].id] = @ + 1]
                      ELSE reverts
  /\ Return(p)
  /\ UNCHANGED <<product_category, farmer_location, lock, now, transitions,
                 trace>>

Next ==
  \E p \in Procs :
    \/ ApproveGet(p)
    \/ ApproveBody(p)
    \/ ApproveExit(p)
    \/ CancelGet(p)
    \/ CancelBody(p)
    \/ CancelExit(p)
    \/ DisapproveGet(p)
    \/ DisapproveSave(p)

Spec == Init /\ [][Next]_vars

\* -------------------------------------------------- save_excel_prices
\* save_excel_prices lines 737-746 on the row found for the entry: a pending
\* row gets the entry's price, quantity and unit and is saved whole
EditResult(row, price, quantity, unit) ==
  IF row.status = "PENDING"
  THEN LET new == [row EXCEPT !.price_per_unit = price,
                              !.quantity = quantity, !.unit = unit]
       IN IF clean(new) # "ok" THEN Failure("ValidationError", row)
          ELSE [kind |-> "OK", expected |-> NoInt, actual |-> NoInt,
                saved |-> TRUE, row |-> new]
  ELSE Failure("CannotUpdate", row)

\* save_excel_prices lines 689-735 for one entry that names the date, product
\* and farmer of a stored row: the buyer check (another user is answered with
\* an error at once), then filter(...).first(), a plain read
EditFind(p) ==
  /\ pc[p] = "idle"
  /\ \E id \in DOMAIN db, u \in Users, price \in Prices :
       IF ~(UserTable[u].has_profile /\ is_buyer(u))
       THEN UNCHANGED <<pc, call, obj>>
       ELSE /\ db[id].buyer = u
            /\ db[id].firm = UserTable[u].firm
            /\ obj' = [obj EXCEPT ![p] = db[id]]
            /\ call' = [call EXCEPT ![p] =
                          [op |-> "edit", id |-> id, user |-> u, ev |-> price]]
            /\ pc' = [pc EXCEPT ![p] = "edit"]
  /\ UNCHANGED <<db, product_category, farmer_location, lock, res, now,
                 transitions, reverts, trace>>

\* save_excel_prices lines 737-771: the update of the row found, the exit of
\* the atomic block and the JSON response; the UPDATE waits for a row lock
\* held elsewhere
EditSave(p) ==
  /\ pc[p] = "edit"
  /\ LET r == EditResult(obj[p], call[p].ev, 1, "kg")
     IN /\ r.saved => lock[call[p].id] = None
        /\ db' = IF r.saved THEN [db EXCEPT ![call[p].id] = r.row] ELSE db
  /\ Return(p)
  /\ UNCHANGED <<product_category, farmer_location, lock, now, transitions,
                 reverts, trace>>

NextEdit ==
  \/ Next
  \/ \E p \in Procs : EditFind(p) \/ EditSave(p)

\* the workflow operations together with the buyers' price edits
SpecEdit == Init /\ [][NextEdit]_vars

\* ------------------------------------------------ concurrent workflow
\* the workflow columns of a row
Workflow(row) ==
  <<row.status, row.approved_by, row.approved_at, row.approval_version>>

\* process p has loaded row i and its checks pass: it is between its read of
\* the row and its write of it
Mutating(p, i) ==
  /\ i \in DOMAIN db
  /\ call[p].id = i
  /\ \/ pc[p] = "approve"
        /\ ApproveResult(obj[p], call[p].user, call[p].ev, now).saved
     \/ pc[p] = "cancel"
        /\ CancelResult(obj[p], call[p].user, call[p].ev).saved
     \/ pc[p] \in {"approve_exit", "cancel_exit"} /\ res[p].saved
     \/ pc[p] = "disapprove" /\ DisapproveResult(obj[p], call[p].user).saved

\* C2: for every submission at most one approve, cancelApproval or disapprove
\* call is between its read of the workflow state and its write of it.
C2_AtMostOneMutator ==
  \A i \in DOMAIN db : Cardinality({p \in Procs : Mutating(p, i)}) <= 1

\* C3: the stored approvalVersion of every submission equals the number of
\* approve and cancelApproval transitions committed on it.
C3_VersionCountsTransitions ==
  \A i \in DOMAIN db : db[i].approval_version = transitions[i]

\* process p takes the step that ends its request
Ends(p) == pc[p] # "idle" /\ pc'[p] = "idle"

\* C5: every committed change of a submission's status is PENDING to APPROVED,
\* CANCELLED to APPROVED, APPROVED to CANCELLED, or APPROVED to PENDING by a
\* disapprove.
C5_StatusChanges ==
  [][\A i \in DOMAIN db :
       db'[i].status # db[i].status =>
         \/ db[i].status \in {"PENDING", "CANCELLED"}
            /\ db'[i].status = "APPROVED"
         \/ db[i].status = "APPROVED" /\ db'[i].status = "CANCELLED"
         \/ /\ db[i].status = "APPROVED" /\ db'[i].status = "PENDING"
            /\ \E p \in Procs : pc[p] = "disapprove" /\ Ends(p)]_vars

\* C6: an approve or cancelApproval call that returns an error leaves every
\* stored field of the submission as it was.
C6_ErrorLeavesStoreUnchanged ==
  [][\A p \in Procs :
       /\ pc[p] \in {"approve_exit", "cancel_exit"}
       /\ Ends(p)
       /\ res[p].kind # "OK"
       => db' = db]_vars

\* an approve body raised ValidationError on a pending submission and is
\* about to leave its atomic block
C6_Witness ==
  /\ pc["p1"] = "approve_exit"
  /\ res["p1"].kind = "ValidationError"
  /\ db[SubId].status = "PENDING"

\* C7: no actor who is neither superuser nor admin changes the workflow
\* columns of a submission of a firm other than the actor's own.
C7_FirmPartition ==
  [][\A p \in Procs :
       \A i \in DOMAIN db :
         /\ Ends(p)
         /\ call[p].id = i
         /\ call[p].op \in {"approve", "cancel", "disapprove"}
         /\ Workflow(db'[i]) # Workflow(db[i])
         /\ ~is_admin(call[p].user)
         => UserTable[call[p].user].firm = db[i].firm]_vars

\* process p is at the end of an approve made by a business head, not a
\* superuser, whose firm is not the firm of the submission it loaded
OtherFirmApprove(p) ==
  /\ pc[p] = "approve_exit"
  /\ call[p].id \in DOMAIN db
  /\ is_business_head(call[p].user)
  /\ ~UserTable[call[p].user].is_superuser
  /\ UserTable[call[p].user].firm # None
  /\ UserTable[call[p].user].firm # obj[p].firm

\* C8 as stated: approve by a business head of another firm always fails with
\* FirmMismatch.
C8_AlwaysFirmMismatch ==
  \A p \in Procs : OtherFirmApprove(p) => res[p].kind = "FirmMismatch"

\* C8 as amended: approve by a business head (not a superuser) of another firm
\* never succeeds and saves nothing; it fails with FirmMismatch when the
\* version check passes and the status is not APPROVED, with VersionConflict
\* when the expected version is stale, and with AlreadyApproved otherwise.
C8_NeverSucceeds ==
  \A p \in Procs :
    OtherFirmApprove(p) =>
      /\ ~res[p].saved
      /\ res[p].kind =
           IF call[p].ev # NoInt /\ call[p].ev # obj[p].approval_version
           THEN "VersionConflict"
           ELSE IF obj[p].status = "APPROVED" THEN "AlreadyApproved"
           ELSE "FirmMismatch"

\* a business head of firm F2 approved a pending submission of firm F1 with
\* the current version and got FirmMismatch
C8_Witness ==
  \E p \in Procs :
    /\ OtherFirmApprove(p)
    /\ call[p].ev = obj[p].approval_version
    /\ obj[p].status = "PENDING"
    /\ res[p].kind = "FirmMismatch"

\* -------------------------------------------------- sequential client
\* the calls the sequential client chooses from: those of the scenario of
\* the specification's testable properties, and a few more
SeqCalls ==
  { [op |-> "approve",    id |-> SubId, user |-> "b1", ev |-> 0],
    [op |-> "approve",    id |-> SubId, user |-> "b2", ev |-> NoInt],
    [op |-> "cancel",     id |-> SubId, user |-> "b1", ev |-> 1],
    [op |-> "approve",    id |-> SubId, user |-> "b1", ev |-> 2],
    [op |-> "approve",    id |-> SubId, user |-> "b1", ev |-> 1],
    [op |-> "approve",    id |-> SubId, user |-> "b1", ev |-> NoInt],
    [op |-> "approve",    id |-> SubId, user |-> "su", ev |-> NoInt],
    [op |-> "disapprove", id |-> SubId, user |-> "b1", ev |-> NoInt] }

\* the outcome of call c made when nothing else runs
CallResult(c) ==
  IF c.id \notin DOMAIN db THEN NotFound
  ELSE IF c.op = "approve"
       THEN ApproveResult(db[c.id], c.user, c.ev, now)
  ELSE IF c.op = "cancel" THEN CancelResult(db[c.id], c.user, c.ev)
  ELSE DisapproveResult(db[c.id], c.user)

\* one whole call of the sequential client, from its read to its return,
\* recorded in the trace
SeqCall(c) ==
  /\ \A p \in Procs : pc[p] = "idle"
  /\ Len(trace) < MaxTrace
  /\ LET r == CallResult(c)
     IN /\ db' = AtomicExit(db, c.id, r)
        /\ now' = IF r.saved /\ c.op = "approve" THEN now + 1 ELSE now
        /\ transitions' = IF r.saved /\ c.op \in {"approve", "cancel"}
                          THEN [transitions EXCEPT ![c.id] = @ + 1]
                          ELSE transitions
        /\ reverts' = IF r.saved /\ c.op = "disapprove"
                      THEN [reverts EXCEPT ![c.id] = @ + 1]
                      ELSE reverts
        /\ trace' = Append(trace,
                      [op |-> c.op, id |-> c.id, user |-> c.user, ev |-> c.ev,
                       kind |-> r.kind, expected |-> r.expected,
                       actual |-> r.actual, before |-> db[c.id],
                       after |-> db'[c.id]])
  /\ UNCHANGED <<product_category, farmer_location, lock, pc, call, obj, res>>

SeqApprove == \E c \in SeqCalls : c.op = "approve" /\ SeqCall(c)
SeqCancel == \E c \in SeqCalls : c.op = "cancel" /\ SeqCall(c)
SeqDisapprove == \E c \in SeqCalls : c.op = "disapprove" /\ SeqCall(c)

NextSeq == SeqApprove \/ SeqCancel \/ SeqDisapprove

\* one client making its calls one after the other
SpecSeq == Init /\ [][NextSeq]_vars

\* the arguments of a recorded call
CallOf(e) == [op |-> e.op, id |-> e.id, user |-> e.user, ev |-> e.ev]

\* user u passes the permission and the firm checks on row
Authorized(row, u) == can_approve(row, u) /\ FirmAccess(row, u) = "ok"

\* C4: every committed transition leaves another approvalVersion, so an
\* approve or cancelApproval with expectedVersion = v never succeeds once a
\* transition has committed after the caller read version v (here: from the
\* submission returned by an earlier call).
C4_StaleVersionNeverSucceeds ==
  \A i, j, k \in 1 .. Len(trace) :
    /\ i < j /\ j < k
    /\ trace[j].kind = "OK"
    /\ trace[k].op \in {"approve", "cancel"}
    /\ trace[k].ev = trace[i].after.approval_version
    => trace[k].kind # "OK"

\* the scenario of the specification's testable properties
Scenario ==
  << [op |-> "approve", id |-> SubId, user |-> "b1", ev |-> 0],
     [op |-> "approve", id |-> SubId, user |-> "b2", ev |-> NoInt],
     [op |-> "cancel",  id |-> SubId, user |-> "b1", ev |-> 1],
     [op |-> "approve", id |-> SubId, user |-> "b1", ev |-> 0],
     [op |-> "approve", id |-> SubId, user |-> "b1", ev |-> 2] >>

\* the first n calls of the trace are those of the scenario, made on a
\* submission whose product and farmer agree with its category and location
InScenario(n) ==
  /\ n <= Len(trace)
  /\ n <= Len(Scenario)
  /\ \A m \in 1 .. n : CallOf(trace[m]) = Scenario[m]
  /\ clean(trace[1].before) = "ok"

\* what the caller sees of a recorded call: the error, or the new status and
\* version
Seen(e) ==
  IF e.kind = "OK" THEN <<"OK", e.after.status, e.after.approval_version>>
  ELSE IF e.kind = "VersionConflict" THEN <<e.kind, e.expected, e.actual>>
  ELSE <<e.kind>>

\* C9 as stated: the scenario gives success (APPROVED, 1), FirmMismatch,
\* success (CANCELLED, 2), VersionConflict(0, 2), success (APPROVED, 3).
C9_ScenarioAsStated ==
  \A n \in 1 .. Len(trace) :
    InScenario(n) =>
      Seen(trace[n]) = << <<"OK", "APPROVED", 1>>, <<"FirmMismatch">>,
                          <<"OK", "CANCELLED", 2>>, <<"VersionConflict", 0, 2>>,
                          <<"OK", "APPROVED", 3>> >>[n]

\* C9 as amended: the second call, made on the APPROVED submission, fails with
\* AlreadyApproved; the other four results are as stated, and no failing call
\* changes the submission.
C9_Scenario ==
  \A n \in 1 .. Len(trace) :
    InScenario(n) =>
      /\ Seen(trace[n]) = << <<"OK", "APPROVED", 1>>, <<"AlreadyApproved">>,
                             <<"OK", "CANCELLED", 2>>,
                             <<"VersionConflict", 0, 2>>,
                             <<"OK", "APPROVED", 3>> >>[n]
      /\ trace[n].kind # "OK" => trace[n].after = trace[n].before

\* the five calls of the scenario have been made
C9_Witness == InScenario(5) /\ db[SubId].approval_version = 3

\* C10: approve twice in a row without expectedVersion by authorized actors on
\* a PENDING submission: the first succeeds, the second fails with
\* AlreadyApproved, approvalVersion ends 1 higher, and approvedBy and
\* approvedAt are those of the first call.
C10_SecondApproveRejected ==
  \A n \in 1 .. Len(trace) - 1 :
    LET first == trace[n]
        second == trace[n + 1]
    IN /\ first.op = "approve" /\ second.op = "approve"
       /\ first.ev = NoInt /\ second.ev = NoInt
       /\ first.before.status = "PENDING"
       /\ Authorized(first.before, first.user)
       /\ Authorized(first.before, second.user)
       /\ clean(first.before) = "ok"
       => /\ first.kind = "OK"
          /\ second.kind = "AlreadyApproved"
          /\ second.after.approval_version = first.before.approval_version + 1
          /\ second.after.status = "APPROVED"
          /\ second.after.approved_by = first.user
          /\ second.after.approved_at = first.after.approved_at
          /\ first.after.approved_at # NoInt

\* two approvals in a row by different authorized actors on a submission
\* that was PENDING with a version above 0
C10_Witness ==
  \E n \in 1 .. Len(trace) - 1 :
    /\ trace[n].op = "approve" /\ trace[n + 1].op = "approve"
    /\ trace[n].ev = NoInt /\ trace[n + 1].ev = NoInt
    /\ trace[n].user = "b1" /\ trace[n + 1].user = "su"
    /\ trace[n].before.status = "PENDING"
    /\ trace[n].before.approval_version > 0
    /\ trace[n + 1].kind = "AlreadyApproved"

\* ------------------------------------------------ two racing approvals
\* a submission that is PENDING at version v: new (v = 0), or approved and
\* disapproved v times
RaceInit ==
  /\ \E v \in 0 .. MaxVersion :
       /\ db = (SubId :> [NewSubmission("F1") EXCEPT !.approval_version = v])
       /\ now = 1 + v
       /\ transitions = [i \in {SubId} |-> v]
       /\ reverts = [i \in {SubId} |-> v]
  /\ product_category \in [Products -> Categories]
  /\ farmer_location \in [Farmers -> Locations]
  /\ lock = [i \in {SubId} |-> None]
  /\ pc = [p \in Procs |-> "idle"]
  /\ call = [p \in Procs |-> NoCall]
  /\ obj = [p \in Procs |-> NoRow]
  /\ res = [p \in Procs |-> NoRes]
  /\ trace = <<>>

\* a caller issues its one approve_submission call
RaceBegin(p) ==
  /\ pc[p] = "idle"
  /\ \A n \in 1 .. Len(trace) : trace[n].proc # p
  /\ \E u \in Users, ev \in ExpectedVersions :
       call' = [call EXCEPT ![p] =
                  [op |-> "approve", id |-> SubId, user |-> u, ev |-> ev]]
  /\ pc' = [pc EXCEPT ![p] = "approve_wait"]
  /\ UNCHANGED <<db, product_category, farmer_location, lock, obj, res, now,
                 transitions, reverts, trace>>

\* approve_submission line 44, once the row lock is free
RaceGet(p) ==
  /\ pc[p] = "approve_wait"
  /\ LockedGet(p, call[p], "approve")
  /\ UNCHANGED <<db, product_category, farmer_location, now, transitions,
                 reverts, trace>>

\* the call returns; its outcome is recorded, with whether the other call had
\* been issued and had not returned yet
RaceExit(p) ==
  /\ ApproveCommit(p)
  /\ trace' = Append(trace,
                [op |-> call[p].op, id |-> call[p].id, user |-> call[p].user,
                 ev |-> call[p].ev, kind |-> res[p].kind,
                 expected |-> res[p].expected, actual |-> res[p].actual,
                 before |-> obj[p], after |-> db'[call[p].id], proc |-> p,
                 overlapped |-> \E q \in Procs \ {p} : pc[q] # "idle"])

NextRace ==
  \E p \in Procs :
    \/ RaceBegin(p)
    \/ RaceGet(p)
    \/ ApproveBody(p)
    \/ RaceExit(p)

\* two callers, each making one approve call on the same submission
SpecRace == RaceInit /\ [][NextRace]_vars

\* both calls have returned; they ran concurrently, were made by authorized
\* actors with the same expectedVersion, omitted or the version the PENDING
\* submission had, and the submission passes validation
RacedApprovals ==
  /\ Len(trace) = 2
  /\ trace[1].overlapped
  /\ trace[1].before.status = "PENDING"
  /\ Authorized(trace[1].before, trace[1].user)
  /\ Authorized(trace[1].before, trace[2].user)
  /\ trace[1].ev = trace[2].ev
  /\ trace[1].ev \in {NoInt, trace[1].before.approval_version}
  /\ clean(trace[1].before) = "ok"

\* C1: of two concurrent approve calls by authorized actors on a PENDING
\* submission with the same expectedVersion exactly one succeeds, the other
\* fails with AlreadyApproved or VersionConflict, and approvalVersion ends
\* exactly 1 higher.
C1_ExactlyOneApproveWins ==
  RacedApprovals =>
    /\ Cardinality({n \in 1 .. 2 : trace[n].kind = "OK"}) = 1
    /\ \A n \in 1 .. 2 :
         trace[n].kind \in {"OK", "AlreadyApproved", "VersionConflict"}
    /\ db[SubId].approval_version = trace[1].before.approval_version + 1
    /\ db[SubId].status = "APPROVED"

\* two authorized actors raced with the current version of a submission
\* PENDING above version 0, and the one that waited got VersionConflict
C1_Witness ==
  /\ RacedApprovals
  /\ trace[1].ev # NoInt
  /\ trace[1].before.approval_version > 0
  /\ trace[2].kind = "VersionConflict"

\* ------------------------------------------- re-approval, cancel, version
\* C11: approve by an authorized actor on a CANCELLED submission, with
\* expectedVersion omitted or equal to the stored version, succeeds and
\* leaves the submission APPROVED by that actor with approvalVersion one
\* higher.
C11_ReapprovalSucceeds ==
  \A n \in 1 .. Len(trace) :
    LET e == trace[n]
    IN /\ e.op = "approve"
       /\ e.before.status = "CANCELLED"
       /\ Authorized(e.before, e.user)
       /\ e.ev \in {NoInt, e.before.approval_version}
       => /\ e.kind = "OK"
          /\ e.after.status = "APPROVED"
          /\ e.after.approved_by = e.user
          /\ e.after.approval_version = e.before.approval_version + 1

\* a submission approved and cancelled by a business head of its firm was
\* approved again by a superuser who sent no version
C11_Witness ==
  \E n \in 1 .. Len(trace) :
    /\ trace[n].op = "approve"
    /\ trace[n].before.status = "CANCELLED"
    /\ trace[n].before.approval_version = 2
    /\ trace[n].user = "su"
    /\ trace[n].ev = NoInt
    /\ trace[n].kind = "OK"

\* process p is at the end of the body of a cancel_approval call that found
\* the row and passed the permission and the version checks
CancelChecked(p) ==
  /\ pc[p] = "cancel_exit"
  /\ call[p].id \in DOMAIN db
  /\ can_approve(obj[p], call[p].user)
  /\ call[p].ev \in {NoInt, obj[p].approval_version}

\* C12: cancelApproval on a PENDING or CANCELLED submission fails with
\* NotApproved for every actor who passes the permission and version checks,
\* and the submission stays unchanged; cancelApproval succeeds only from
\* status APPROVED.
C12_CancelOnlyFromApproved ==
  [][\A p \in Procs :
       /\ (CancelChecked(p) /\ obj[p].status # "APPROVED" =>
              /\ res[p].kind = "NotApproved"
              /\ Ends(p) => db' = db)
       /\ (pc[p] = "cancel_exit" /\ res[p].kind = "OK" =>
              obj[p].status = "APPROVED")]_vars

\* a cancel of a CANCELLED submission by a business head of another firm,
\* without a version, was answered NotApproved
C12_Witness ==
  \E p \in Procs :
    /\ CancelChecked(p)
    /\ obj[p].status = "CANCELLED"
    /\ call[p].user = "b2"
    /\ call[p].ev = NoInt
    /\ res[p].kind = "NotApproved"

\* process p is at the end of the body of an approve_submission or a
\* cancel_approval call that found the row and passed the permission check
PermissionPassed(p) ==
  /\ pc[p] \in {"approve_exit", "cancel_exit"}
  /\ call[p].id \in DOMAIN db
  /\ can_approve(obj[p], call[p].user)

\* C13: for an actor who passes the permission check, approve and
\* cancelApproval with an expectedVersion different from the stored
\* approvalVersion fail with VersionConflict carrying the expected and the
\* actual version, whatever the status; with expectedVersion omitted no
\* version check is made.
C13_VersionConflict ==
  \A p \in Procs :
    PermissionPassed(p) =>
      IF call[p].ev # NoInt /\ call[p].ev # obj[p].approval_version
      THEN /\ res[p].kind = "VersionConflict"
           /\ res[p].expected = call[p].ev
           /\ res[p].actual = obj[p].approval_version
           /\ ~res[p].saved
      ELSE res[p].kind # "VersionConflict"

\* an approve of an APPROVED submission with the version it had before it was
\* approved is about to return VersionConflict(0, 1)
C13_Witness ==
  \E p \in Procs :
    /\ PermissionPassed(p)
    /\ call[p].op = "approve"
    /\ obj[p].status = "APPROVED"
    /\ res[p].kind = "VersionConflict"
    /\ res[p].expected = 0 /\ res[p].actual = 1

\* ------------------------------------------------- frame of an approve
NextApproveEdit ==
  \E p \in Procs :
    \/ ApproveGet(p)
    \/ ApproveBody(p)
    \/ ApproveExit(p)
    \/ EditFind(p)
    \/ EditSave(p)

\* approve calls together with the buyers' price edits
SpecApproveEdit == Init /\ [][NextApproveEdit]_vars

\* C14: a successful approve by actor a sets status = APPROVED, approvedBy =
\* a, approvedAt = the current time and approvalVersion = its previous value
\* + 1, and leaves every other stored field of the submission (date, firm,
\* category, product, farmer, location, buyer, pricePerUnit, quantity, unit)
\* as it was stored before the commit.
C14_ApproveFrame ==
  [][\A p \in Procs :
       /\ (pc[p] = "approve" /\ pc'[p] = "approve_exit"
            /\ res'[p].kind = "OK" =>
              res'[p].row.approved_at = now)
       /\ (pc[p] = "approve_exit" /\ Ends(p) /\ res[p].kind = "OK" =>
              db'[call[p].id] =
                [db[call[p].id] EXCEPT
                   !.status = "APPROVED",
                   !.approved_by = call[p].user,
                   !.approved_at = res[p].row.approved_at,
                   !.approval_version = @ + 1])]_vars

\* an approve of a submission whose price a buyer has changed to 2 is about
\* to commit, while the other process is in a price edit of the same
\* submission with a copy of the row read before that change
C14_Witness ==
  \E p, q \in Procs :
    /\ pc[p] = "approve_exit" /\ res[p].kind = "OK"
    /\ db[SubId].price_per_unit = 2
    /\ pc[q] = "edit"
    /\ obj[q].price_per_unit = 1

\* ------------------------------------------------- permission queries
\* a second stored submission
OtherId == 3

Statuses == {"PENDING", "APPROVED", "CANCELLED"}

\* a stored PriceSubmission row of firm f in status st, as the workflow
\* leaves it: approved once (version 1), or approved and cancelled (version 2)
StoredSubmission(f, st, price) ==
  [NewSubmission(f) EXCEPT
     !.price_per_unit = price,
     !.status = st,
     !.approved_by = IF st = "APPROVED" THEN "su" ELSE None,
     !.approved_at = IF st = "APPROVED" THEN 1 ELSE NoInt,
     !.approval_version = CASE st = "PENDING" -> 0
                            [] st = "APPROVED" -> 1
                            [] st = "CANCELLED" -> 2]

\* two stored submissions, each of any firm and in any status
StoreInit ==
  /\ \E f1, f2 \in Firms, st1, st2 \in Statuses :
       db = (SubId :> StoredSubmission(f1, st1, 1)) @@
            (OtherId :> StoredSubmission(f2, st2, 2))
  /\ product_category \in [Products -> Categories]
  /\ farmer_location \in [Farmers -> Locations]
  /\ lock = [i \in {SubId, OtherId} |-> None]
  /\ pc = [p \in Procs |-> "idle"]
  /\ call = [p \in Procs |-> NoCall]
  /\ obj = [p \in Procs |-> NoRow]
  /\ res = [p \in Procs |-> NoRes]
  /\ now = 2
  /\ transitions = [i \in {SubId, OtherId} |-> db[i].approval_version]
  /\ reverts = [i \in {SubId, OtherId} |-> 0]
  /\ trace = <<>>

\* ApprovalService.get_approvable_submissions: the ids of the rows of the
\* queryset it returns
get_approvable_submissions(u) ==
  IF ~UserTable[u].has_profile THEN {}
  ELSE IF UserTable[u].is_superuser \/ is_admin(u)
       THEN {i \in DOMAIN db : db[i].status = "PENDING"}
  ELSE IF is_business_head(u) /\ UserTable[u].firm # None
       THEN {i \in DOMAIN db : /\ db[i].status = "PENDING"
                                /\ db[i].firm = UserTable[u].firm}
  ELSE {}

\* a caller evaluates submission.can_approve(user); the answer is recorded
CanApproveQuery ==
  /\ \E i \in DOMAIN db, u \in Users :
       trace' = << [op |-> "can_approve", id |-> i, user |-> u,
                    result |-> can_approve(db[i], u)] >>
  /\ UNCHANGED <<db, product_category, farmer_location, lock, pc, call, obj,
                 res, now, transitions, reverts>>

\* a caller evaluates get_approvable_submissions(user); the answer is
\* recorded
ListApprovableQuery ==
  /\ \E u \in Users :
       trace' = << [op |-> "list", id |-> NoInt, user |-> u,
                    result |-> get_approvable_submissions(u)] >>
  /\ UNCHANGED <<db, product_category, farmer_location, lock, pc, call, obj,
                 res, now, transitions, reverts>>

NextQuery == CanApproveQuery \/ ListApprovableQuery

\* the permission queries on a store of two submissions
SpecQuery == StoreInit /\ [][NextQuery]_vars

\* C15 as stated: canApprove(actor, submission) is true if and only if the
\* actor is a superuser, or the actor is a business head whose firm is the
\* firm of the submission.
C15_CanApproveIff ==
  \A n \in 1 .. Len(trace) :
    trace[n].op = "can_approve" =>
      LET u == trace[n].user
          row == db[trace[n].id]
      IN trace[n].result =
           (\/ UserTable[u].is_superuser
            \/ is_business_head(u) /\ UserTable[u].firm = row.firm)

\* C15 as amended: canApprove(actor, submission) is true if and only if the
\* actor is a superuser, or the actor has a profile and is a business head,
\* whatever the actor's firm and the submission's firm are.
C15_CanApproveByRole ==
  \A n \in 1 .. Len(trace) :
    trace[n].op = "can_approve" =>
      LET u == trace[n].user
      IN trace[n].result =
           (\/ UserTable[u].is_superuser
            \/ UserTable[u].has_profile
               /\ "BUSINESS_HEAD" \in UserTable[u].groups)

\* can_approve answered yes for a business head of another firm
C15_Witness ==
  \E n \in 1 .. Len(trace) :
    /\ trace[n].op = "can_approve"
    /\ trace[n].user = "b2"
    /\ db[trace[n].id].firm = "F1"
    /\ trace[n].result = TRUE

\* C16: listApprovable(actor) is the set of all PENDING submissions for a
\* superuser or admin, the set of the PENDING submissions of the actor's firm
\* for a business head with a firm, and empty for every other actor.
C16_ListApprovable ==
  \A n \in 1 .. Len(trace) :
    trace[n].op = "list" =>
      LET u == trace[n].user
          pending == {i \in DOMAIN db : db[i].status = "PENDING"}
      IN trace[n].result =
           IF UserTable[u].is_superuser \/ "ADMIN" \in UserTable[u].groups
           THEN pending
           ELSE IF is_business_head(u) /\ UserTable[u].firm # None
                THEN {i \in pending : db[i].firm = UserTable[u].firm}
                ELSE {}

\* ------------------------------------------------------- bulk approve
\* an entry of the posted submission_ids list: the id of a stored row, an id
\* no row has, or (NoInt) text that int() rejects
BulkEntries == {SubId, MissingId, OtherId, NoInt}

RECURSIVE SeqsUpTo(_, _)
\* the sequences over S of length 1 .. n
SeqsUpTo(S, n) ==
  IF n = 0 THEN {}
  ELSE SeqsUpTo(S, n - 1) \cup [1 .. n -> S]

RECURSIVE Ascending(_)
\* the rows of a queryset, in one order
Ascending(S) ==
  IF S = {} THEN <<>>
  ELSE LET least == CHOOSE i \in S : \A j \in S : i <= j
       IN <<least>> \o Ascending(S \ {least})

\* no bulk approve has been started
NoBulkYet ==
  /\ trace = <<>>
  /\ \A q \in Procs : pc[q] \notin {"bulk", "bulk_approve", "bulk_approve_exit"}

\* bulk_approve_submissions lines 205-222: the posted list and the role
\* check; a user without a profile is answered with a server error and a
\* user of another role with a redirect, before the loop
BulkBegin(p) ==
  /\ pc[p] = "idle"
  /\ NoBulkYet
  /\ \E u \in Users, ids \in SeqsUpTo(BulkEntries, MaxBatch) :
       IF ~UserTable[u].has_profile THEN UNCHANGED <<pc, call>>
       ELSE IF ~(is_business_head(u) \/ is_admin(u))
            THEN UNCHANGED <<pc, call>>
       ELSE /\ call' = [call EXCEPT ![p] =
                          [op |-> "bulk", id |-> NoInt, user |-> u,
                           ev |-> NoInt, ids |-> ids, k |-> 1,
                           supplied |-> Len(ids),
                           selected |-> {ids[n] : n \in 1 .. Len(ids)},
                           success_count |-> 0, error_count |-> 0]]
            /\ pc' = [pc EXCEPT ![p] = "bulk"]
  /\ UNCHANGED <<db, product_category, farmer_location, lock, obj, res, now,
                 transitions, reverts, trace>>

\* PriceSubmissionAdmin.approve_submissions lines 227-234, run by a superuser
\* on the rows selected in the change list: the loop is over the selected
\* rows that are PENDING
AdminBulkBegin(p) ==
  /\ pc[p] = "idle"
  /\ NoBulkYet
  /\ \E u \in Users, selected \in (SUBSET DOMAIN db) \ {{}} :
       /\ UserTable[u].is_superuser
       /\ call' = [call EXCEPT ![p] =
                     [op |-> "admin_bulk", id |-> NoInt, user |-> u,
                      ev |-> NoInt,
                      ids |-> Ascending({i \in selected :
                                           db[i].status = "PENDING"}),
                      k |-> 1, supplied |-> Cardinality(selected),
                      selected |-> selected,
                      success_count |-> 0, error_count |-> 0]]
       /\ pc' = [pc EXCEPT ![p] = "bulk"]
  /\ UNCHANGED <<db, product_category, farmer_location, lock, obj, res, now,
                 transitions, reverts, trace>>

\* one turn of the loop (views/approvals.py 224-230, admin.py 234-239) up to
\* the locked read of approve_submission: int() of the entry, which raises
\* ValueError for text that is no number, then select_for_update().get()
BulkItem(p) ==
  /\ pc[p] = "bulk"
  /\ call[p].k <= Len(call[p].ids)
  /\ LET sid == call[p].ids[call[p].k]
     IN IF sid = NoInt
        THEN /\ call' = [call EXCEPT ![p].k = @ + 1,
                                     ![p].error_count = @ + 1]
             /\ UNCHANGED <<pc, lock, obj, res>>
        ELSE LockedGet(p, [call[p] EXCEPT !.id = sid], "bulk_approve")
  /\ UNCHANGED <<db, product_category, farmer_location, now, transitions,
                 reverts, trace>>

\* approve_submission lines 46-86 for the item, without expected_version
BulkBody(p) ==
  /\ pc[p] = "bulk_approve"
  /\ res' = [res EXCEPT ![p] =
               ApproveResult(obj[p], call[p].user, NoInt, now)]
  /\ now' = IF res'[p].saved THEN now + 1 ELSE now
  /\ pc' = [pc EXCEPT ![p] = "bulk_approve_exit"]
  /\ UNCHANGED <<db, product_category, farmer_location, lock, call, obj,
                 transitions, reverts, trace>>

\* the loop giving up at the first item that fails
BulkItemExit_StopsAtError(p) ==
  /\ pc[p] = "bulk_approve_exit"
  /\ db' = AtomicExit(db, call[p].id, res[p])
  /\ transitions' = IF res[p].saved
                    THEN [transitions EXCEPT ![call[p].id] = @ + 1]
                    ELSE transitions
  /\ lock' = [i \in DOMAIN lock |-> IF lock[i] = p THEN None ELSE lock[i]]
  /\ call' = IF res[p].kind = "OK"
             THEN [call EXCEPT ![p].k = @ + 1, ![p].success_count = @ + 1]
             ELSE [call EXCEPT ![p].k = Len(call[p].ids) + 1,
                               ![p].error_count = @ + 1]
  /\ pc' = [pc EXCEPT ![p] = "bulk"]
  /\ obj' = [obj EXCEPT ![p] = NoRow]
  /\ res' = [res EXCEPT ![p] = NoRes]
  /\ UNCHANGED <<product_category, farmer_location, now, reverts, trace>>

\* the loop inside one transaction around the whole batch: the row lock of
\* an item is kept when its approve_submission returns
BulkItemExit_KeepsLock(p) ==
  /\ pc[p] = "bulk_approve_exit"
  /\ db' = AtomicExit(db, call[p].id, res[p])
  /\ transitions' = IF res[p].saved
                    THEN [transitions EXCEPT ![call[p].id] = @ + 1]
                    ELSE transitions
  /\ lock' = lock
  /\ call' = IF res[p].kind = "OK"
             THEN [call EXCEPT ![p].k = @ + 1, ![p].success_count = @ + 1]
             ELSE [call EXCEPT ![p].k = @ + 1, ![p].error_count = @ + 1]
  /\ pc' = [pc EXCEPT ![p] = "bulk"]
  /\ obj' = [obj EXCEPT ![p] = NoRow]
  /\ res' = [res EXCEPT ![p] = NoRes]
  /\ UNCHANGED <<product_category, farmer_location, now, reverts, trace>>

\* the atomic block of the item's approve_submission exits, and the loop
\* counts the item (views/approvals.py 231-234, admin.py 240-242)
BulkItemExit(p) ==
  /\ pc[p] = "bulk_approve_exit"
  /\ db' = AtomicExit(db, call[p].id, res[p])
  /\ transitions' = IF res[p].saved
                    THEN [transitions EXCEPT ![call[p].id] = @ + 1]
                    ELSE transitions
  /\ lock' = [i \in DOMAIN lock |-> IF lock[i] = p THEN None ELSE lock[i]]
  /\ call' = IF res[p].kind = "OK"
             THEN [call EXCEPT ![p].k = @ + 1, ![p].success_count = @ + 1]
             ELSE [call EXCEPT ![p].k = @ + 1, ![p].error_count = @ + 1]
  /\ pc' = [pc EXCEPT ![p] = "bulk"]
  /\ obj' = [obj EXCEPT ![p] = NoRow]
  /\ res' = [res EXCEPT ![p] = NoRes]
  /\ UNCHANGED <<product_category, farmer_location, now, reverts, trace>>

\* the end of the loop: the counts are reported (views/approvals.py 236-244,
\* admin.py 244-247)
BulkReturn(p) ==
  /\ pc[p] = "bulk"
  /\ call[p].k > Len(call[p].ids)
  /\ trace' = Append(trace,
                [op |-> call[p].op, user |-> call[p].user,
                 ids |-> call[p].ids, supplied |-> call[p].supplied,
                 success_count |-> call[p].success_count,
                 error_count |-> call[p].error_count])
  /\ Return(p)
  /\ UNCHANGED <<db, product_category, farmer_location, lock, now,
                 transitions, reverts>>

NextBulk ==
  \E p \in Procs :
    \/ BulkBegin(p)
    \/ AdminBulkBegin(p)
    \/ BulkItem(p)
    \/ BulkBody(p)
    \/ BulkItemExit(p)
    \/ BulkReturn(p)

\* one bulk approve, from the view or from the admin site, on a store of two
\* submissions
SpecBulk == StoreInit /\ [][NextBulk]_vars

\* process p is in the loop of a bulk approve
InBulk(p) == pc[p] \in {"bulk", "bulk_approve", "bulk_approve_exit"}

\* the preconditions of approve hold for user u on row: u passes the
\* permission and firm checks, the row is not APPROVED and passes validation
Approvable(row, u) ==
  /\ Authorized(row, u)
  /\ row.status # "APPROVED"
  /\ clean(row) = "ok"

\* C17 as stated: a bulk approve reports success and failure counts whose sum
\* is the number of ids supplied, and every supplied id whose approve
\* preconditions hold ends APPROVED.
C17_BulkAsStated ==
  [][\A p \in Procs :
       pc[p] = "bulk" /\ pc'[p] = "idle" =>
         /\ call[p].success_count + call[p].error_count = call[p].supplied
         /\ \A i \in call[p].selected \cap DOMAIN db :
              Authorized(db[i], call[p].user) /\ clean(db[i]) = "ok"
                => db[i].status = "APPROVED"]_vars

\* C17 as amended: each item is approved in its own transaction; an item
\* that fails changes nothing, is counted as a failure and the loop goes on;
\* an item whose approve preconditions hold when its turn comes is committed
\* APPROVED and counted as a success; the counts add up to the number of ids
\* the loop was given, which is the number of ids supplied for the view and
\* the number of selected submissions that were PENDING for the admin action.
C17_Bulk ==
  [][\A p \in Procs :
       /\ (pc[p] = "bulk_approve_exit" /\ pc'[p] # pc[p] =>
              /\ pc'[p] = "bulk"
              /\ call'[p].k = call[p].k + 1
              /\ lock' = [i \in DOMAIN lock |-> None]
              /\ \A i \in DOMAIN db \ {call[p].id} : db'[i] = db[i]
              /\ IF call[p].id \in DOMAIN db
                    /\ Approvable(db[call[p].id], call[p].user)
                 THEN /\ db'[call[p].id].status = "APPROVED"
                      /\ db'[call[p].id].approved_by = call[p].user
                      /\ call'[p].success_count = call[p].success_count + 1
                      /\ call'[p].error_count = call[p].error_count
                 ELSE /\ db' = db
                      /\ call'[p].success_count = call[p].success_count
                      /\ call'[p].error_count = call[p].error_count + 1)
       /\ (InBulk(p) /\ pc[p] # "bulk_approve_exit" => db' = db)
       /\ (pc[p] = "bulk" /\ pc'[p] = "idle" =>
              /\ call[p].success_count + call[p].error_count
                   = Len(call[p].ids)
              /\ call[p].op = "bulk" => Len(call[p].ids) = call[p].supplied
              /\ call[p].op = "admin_bulk" =>
                   Len(call[p].ids) <= call[p].supplied)
       /\ (pc[p] = "idle" /\ pc'[p] = "bulk"
            /\ call'[p].op = "admin_bulk" =>
              Len(call'[p].ids) =
                Cardinality({i \in call'[p].selected :
                               db[i].status = "PENDING"}))]_vars

\* a business head of firm F1 posted the ids of a submission of firm F2 and
\* of a PENDING submission of firm F1, in this order: the first failed, the
\* second was approved, and the counts are 1 and 1
C17_Witness ==
  \E n \in 1 .. Len(trace) :
    /\ trace[n].op = "bulk"
    /\ trace[n].user = "b1"
    /\ trace[n].ids = <<OtherId, SubId>>
    /\ db[OtherId].firm = "F2" /\ db[OtherId].status = "PENDING"
    /\ db[SubId].status = "APPROVED" /\ db[SubId].approved_by = "b1"
    /\ trace[n].success_count = 1 /\ trace[n].error_count = 1

\* ------------------------------------------- disapprove and buyer edits
\* C18: disapprove succeeds only when the stored status is APPROVED at the
\* moment its write is committed; it sets status = PENDING, clears approvedBy
\* and approvedAt, and leaves approvalVersion equal to the value stored
\* immediately before the write.
C18_DisapproveFromApproved ==
  [][\A p \in Procs :
       /\ pc[p] = "disapprove"
       /\ Ends(p)
       /\ DisapproveResult(obj[p], call[p].user).kind = "OK"
       => /\ db[call[p].id].status = "APPROVED"
          /\ db'[call[p].id].status = "PENDING"
          /\ db'[call[p].id].approved_by = None
          /\ db'[call[p].id].approved_at = NoInt
          /\ db'[call[p].id].approval_version
               = db[call[p].id].approval_version]_vars

\* C19: a buyer's edit of the price, quantity or unit of a submission never
\* changes its status, approvedBy, approvedAt or approvalVersion, also when
\* it runs concurrently with an approve or cancelApproval.
C19_EditKeepsWorkflow ==
  [][\A p \in Procs :
       pc[p] = "edit" /\ Ends(p) =>
         Workflow(db'[call[p].id]) = Workflow(db[call[p].id])]_vars

\* ------------------------------------------------------ the edit form
\* dates the edit form accepts (clean_date: from 30 days back to tomorrow)
Dates == {1, 2}

\* the scope columns of a row
Scope(row) ==
  <<row.date, row.firm, row.category, row.product, row.farmer, row.location,
    row.buyer>>

\* the firms the form's firm field offers to user u
\* (BuyerSubmissionForm._setup_user_specific_querysets)
FormFirms(u) ==
  IF UserTable[u].has_profile /\ ~is_admin(u) /\ UserTable[u].firm # None
  THEN {UserTable[u].firm}
  ELSE Firms

\* BuyerSubmissionForm on the instance the view loaded, posted by user u with
\* a date and a firm and the other fields as they were: the form's clean(),
\* then save(), which sets the posted fields and buyer = the user and saves
\* the whole row
FormResult(row, u, date, firm) ==
  IF firm \notin FormFirms(u) THEN Failure("FormInvalid", row)
  ELSE LET new == [row EXCEPT !.date = date, !.firm = firm, !.buyer = u]
       IN IF clean(new) # "ok" THEN Failure("FormInvalid", row)
          ELSE [kind |-> "OK", expected |-> NoInt, actual |-> NoInt,
                saved |-> TRUE, row |-> new]

\* SubmissionUpdateView.dispatch and post up to get_object(): plain reads of
\* the row; a user who may not edit it is redirected at once
FormGet(p) ==
  /\ pc[p] = "idle"
  /\ \E id \in DOMAIN db, u \in Users, date \in Dates, firm \in Firms :
       IF ~can_edit(db[id], u)
       THEN UNCHANGED <<pc, call, obj>>
       ELSE /\ obj' = [obj EXCEPT ![p] = db[id]]
            /\ call' = [call EXCEPT ![p] =
                          [op |-> "form", id |-> id, user |-> u, ev |-> NoInt,
                           date |-> date, firm |-> firm]]
            /\ pc' = [pc EXCEPT ![p] = "form"]
  /\ UNCHANGED <<db, product_category, farmer_location, lock, res, now,
                 transitions, reverts, trace>>

\* SubmissionUpdateView.post from the form's validation to form.save() and
\* the redirect; the UPDATE waits for a row lock held elsewhere
FormSave(p) ==
  /\ pc[p] = "form"
  /\ LET r == FormResult(obj[p], call[p].user, call[p].date, call[p].firm)
     IN /\ r.saved => lock[call[p].id] = None
        /\ db' = IF r.saved THEN [db EXCEPT ![call[p].id] = r.row] ELSE db
  /\ Return(p)
  /\ UNCHANGED <<product_category, farmer_location, lock, now, transitions,
                 reverts, trace>>

NextForm == \E p \in Procs : FormGet(p) \/ FormSave(p)

\* concurrent edits of a pending submission through the edit form
SpecForm == Init /\ [][NextForm]_vars

\* C20: after a submission is created no operation changes its date, firm,
\* category, product, farmer, location or buyer.
C20_ScopeImmutable ==
  [][\A i \in DOMAIN db : Scope(db'[i]) = Scope(db[i])]_vars

\* ------------------------------------------- creating and pricing rows
\* the prices and quantities a request may carry
Amounts == {-1, 0, 1}

\* the ids the store gives to its rows
RowIds == {SubId, OtherId}

\* the id of the next row inserted
FreeId == CHOOSE i \in RowIds \ DOMAIN db : \A j \in RowIds \ DOMAIN db : i <= j

\* an empty store
EmptyInit ==
  /\ db = [i \in {} |-> NoRow]
  /\ product_category \in [Products -> Categories]
  /\ farmer_location \in [Farmers -> Locations]
  /\ lock = [i \in RowIds |-> None]
  /\ pc = [p \in Procs |-> "idle"]
  /\ call = [p \in Procs |-> NoCall]
  /\ obj = [p \in Procs |-> NoRow]
  /\ res = [p \in Procs |-> NoRes]
  /\ now = 1
  /\ transitions = [i \in RowIds |-> 0]
  /\ reverts = [i \in RowIds |-> 0]
  /\ trace = <<>>

\* PriceSubmission.objects.create(...) of the grid: the row of buyer u for
\* the date, with the category of the product and the location of the farmer
CreatedRow(u, date, price, quantity) ==
  [NewSubmission(UserTable[u].firm) EXCEPT
     !.date = date, !.buyer = u,
     !.category = product_category["tomato"],
     !.location = farmer_location["ravi"],
     !.price_per_unit = price, !.quantity = quantity]

\* one entry of save_excel_prices / bulk_save_prices posted by user u: the
\* buyer check, the required fields (a price of 0 is falsy and the entry is
\* skipped; the quantity is not among them), the row found for the entry
\* updated when pending, or a new row created.  Both paths end in save(),
\* which calls clean() and not the validators of the fields.
SaveEntry(u, date, price, quantity) ==
  IF ~(UserTable[u].has_profile /\ is_buyer(u)) THEN db
  ELSE IF price = 0 THEN db
  ELSE LET found == {i \in DOMAIN db :
                       /\ db[i].date = date /\ db[i].product = "tomato"
                       /\ db[i].farmer = "ravi" /\ db[i].buyer = u
                       /\ db[i].firm = UserTable[u].firm}
       IN IF found # {}
          THEN LET i == CHOOSE i \in found : \A j \in found : i <= j
                   r == EditResult(db[i], price, quantity, "kg")
               IN IF r.saved THEN [db EXCEPT ![i] = r.row] ELSE db
          ELSE IF RowIds \ DOMAIN db = {} THEN db
          ELSE LET new == CreatedRow(u, date, price, quantity)
               IN IF clean(new) # "ok" THEN db
                  ELSE db @@ (FreeId :> new)

\* save_excel_prices with one entry
GridSave ==
  /\ \E u \in Users, date \in Dates, price \in Amounts, quantity \in Amounts :
       db' = SaveEntry(u, date, price, quantity)
  /\ UNCHANGED <<product_category, farmer_location, lock, pc, call, obj, res,
                 now, transitions, reverts, trace>>

\* bulk_save_prices with one entry
BulkSave ==
  /\ \E u \in Users, date \in Dates, price \in Amounts, quantity \in Amounts :
       db' = SaveEntry(u, date, price, quantity)
  /\ UNCHANGED <<product_category, farmer_location, lock, pc, call, obj, res,
                 now, transitions, reverts, trace>>

\* SubmissionCreateView with BuyerSubmissionForm posted by user u: dispatch
\* (buyers and admins), the form's validation (the firm offered to the user,
\* clean_price_per_unit and clean_quantity reject amounts <= 0), then
\* form.save() with buyer = the user; an exact duplicate breaks
\* unique_together and nothing is stored
FormCreate ==
  /\ \E u \in Users, date \in Dates, firm \in Firms,
        price \in Amounts, quantity \in Amounts :
       LET new == [CreatedRow(u, date, price, quantity) EXCEPT !.firm = firm]
       IN IF ~(UserTable[u].has_profile /\ (is_buyer(u) \/ is_admin(u)))
          THEN db' = db
          ELSE IF firm \notin FormFirms(u) \/ price <= 0 \/ quantity <= 0
          THEN db' = db
          ELSE IF \E i \in DOMAIN db :
                    /\ Scope(db[i]) = Scope(new)
                    /\ db[i].price_per_unit = price
                    /\ db[i].quantity = quantity
          THEN db' = db
          ELSE IF RowIds \ DOMAIN db = {} THEN db' = db
          ELSE db' = db @@ (FreeId :> new)
  /\ UNCHANGED <<product_category, farmer_location, lock, pc, call, obj, res,
                 now, transitions, reverts, trace>>

NextEntry == GridSave \/ BulkSave \/ FormCreate

\* rows created and priced through the grid, the bulk grid and the form
SpecEntry == EmptyInit /\ [][NextEntry]_vars

\* C21: every stored submission has a price per unit greater than zero and
\* a quantity greater than zero, at every reachable state, whatever the
\* sequence of create and edit operations.
C21_PositiveAmounts ==
  \A i \in DOMAIN db : db[i].price_per_unit > 0 /\ db[i].quantity > 0

\* ----------------------------------------------------- submission_delete
\* submission_delete lines 433-441: get_object_or_404, a plain read, then
\* the permission check on the loaded instance: an admin, or the buyer of
\* the submission while it is PENDING.  An id without a row is answered 404,
\* a user without profile with a server error, a refused user is redirected.
DeleteGet(p) ==
  /\ pc[p] = "idle"
  /\ \E id \in Ids, u \in Users :
       IF id \notin DOMAIN db \/ ~UserTable[u].has_profile
       THEN UNCHANGED <<pc, call, obj>>
       ELSE IF ~(is_admin(u) \/
                 (db[id].buyer = u /\ db[id].status = "PENDING"))
       THEN UNCHANGED <<pc, call, obj>>
       ELSE /\ obj' = [obj EXCEPT ![p] = db[id]]
            /\ call' = [call EXCEPT ![p] =
                          [op |-> "delete", id |-> id, user |-> u,
                           ev |-> NoInt]]
            /\ pc' = [pc EXCEPT ![p] = "delete"]
  /\ UNCHANGED <<db, product_category, farmer_location, lock, res, now,
                 transitions, reverts, trace>>

\* submission_delete lines 443-446 (POST): submission.delete(), autocommitted,
\* and the redirect; the DELETE waits for a row lock held elsewhere
DeleteCommit(p) ==
  /\ pc[p] = "delete"
  /\ call[p].id \in DOMAIN db => lock[call[p].id] = None
  /\ db' = [i \in DOMAIN db \ {call[p].id} |-> db[i]]
  /\ Return(p)
  /\ UNCHANGED <<product_category, farmer_location, lock, now, transitions,
                 reverts, trace>>

NextDelete ==
  \E p \in Procs :
    \/ ApproveGet(p)
    \/ ApproveBody(p)
    \/ ApproveExit(p)
    \/ CancelGet(p)
    \/ CancelBody(p)
    \/ CancelExit(p)
    \/ DeleteGet(p)
    \/ DeleteCommit(p)

\* approve and cancel_approval together with deletions
SpecDelete == Init /\ [][NextDelete]_vars

\* C22: a submission is deleted only when its status is PENDING and the
\* requester is the buyer who owns it; an APPROVED or CANCELLED submission
\* is never deleted, and approve and cancelApproval never delete one.
C22_DeleteOnlyOwnPending ==
  [][\A i \in DOMAIN db :
       i \notin DOMAIN db' =>
         \E p \in Procs :
           /\ pc[p] = "delete" /\ pc'[p] = "idle" /\ call[p].id = i
           /\ db[i].status = "PENDING"
           /\ db[i].buyer = call[p].user]_vars

\* ------------------------------------------------------ lock contention
\* the errors the service raises for its business rules
BusinessErrors ==
  {"NotFound", "Forbidden", "VersionConflict", "AlreadyApproved",
   "NotApproved", "FirmMismatch", "ProfileNotConfigured", "ValidationError"}

\* the class of the exception a call leaves with: every failure is raised,
\* or caught by "except Exception" and raised again, as ApprovalError
\* (approval_service.py lines 48-92 and 117-157)
ExceptionClass(r) == IF r.kind = "OK" THEN None ELSE "ApprovalError"

\* select_for_update().get() of approve_submission or cancel_approval when
\* the row is locked by another transaction and the database gives up the
\* wait (lock timeout): the driver's error is raised inside the try block.
\* Whether and when the wait is given up depends on the database; a call
\* may as well keep waiting.
LockTimeout(p) ==
  /\ pc[p] = "idle"
  /\ \A i \in DOMAIN db : transitions[i] < MaxTransitions
  /\ \E op \in {"approve", "cancel"}, id \in DOMAIN db, u \in Users,
        ev \in ExpectedVersions :
       /\ lock[id] \notin {None, p}
       /\ call' = [call EXCEPT ![p] =
                     [op |-> op, id |-> id, user |-> u, ev |-> ev]]
       /\ res' = [res EXCEPT ![p] = Failure("DatabaseError", NoRow)]
       /\ pc' = [pc EXCEPT ![p] = op \o "_exit"]
  /\ UNCHANGED <<db, product_category, farmer_location, lock, obj, now,
                 transitions, reverts, trace>>

NextTimeout ==
  \E p \in Procs :
    \/ ApproveGet(p)
    \/ ApproveBody(p)
    \/ ApproveExit(p)
    \/ CancelGet(p)
    \/ CancelBody(p)
    \/ CancelExit(p)
    \/ LockTimeout(p)

\* approve and cancel_approval on a database that may give up a lock wait
SpecTimeout == Init /\ [][NextTimeout]_vars

\* C23: when approve or cancelApproval cannot acquire the lock on the
\* submission, the call fails with an error that is distinguishable from
\* every business-rule error, and the submission is left unchanged.
C23_BusyIsDistinct ==
  [][\A p \in Procs :
       res[p].kind = "DatabaseError" /\ Ends(p) =>
         /\ db' = db
         /\ \A k \in BusinessErrors :
              ExceptionClass(res[p]) # ExceptionClass(Failure(k, NoRow))]_vars

\* the part of C23 about the store: a call that gave up a lock wait leaves
\* every stored submission as it was
LockTimeoutLeavesStore ==
  [][\A p \in Procs : res[p].kind = "DatabaseError" /\ Ends(p) => db' = db]_vars

\* ----------------------------------------------------------- the log
\* the log of the service in the variable trace: the audit lines
\* "Submission <id> approved by <user> (version <v>)" and "Submission <id>
\* approval cancelled by <user> (version <v>)" in the order written, and, as
\* sets, the ids named by "Re-approving previously cancelled submission"
\* lines and the calls named by logger.error lines
AuditInit ==
  /\ db = (SubId :> NewSubmission("F1"))
  /\ product_category \in [Products -> Categories]
  /\ farmer_location \in [Farmers -> Locations]
  /\ lock = [i \in {SubId} |-> None]
  /\ pc = [p \in Procs |-> "idle"]
  /\ call = [p \in Procs |-> NoCall]
  /\ obj = [p \in Procs |-> NoRow]
  /\ res = [p \in Procs |-> NoRes]
  /\ now = 1
  /\ transitions = [i \in {SubId} |-> 0]
  /\ reverts = [i \in {SubId} |-> 0]
  /\ trace = [audit |-> <<>>, notes |-> {}, errors |-> {}]

\* the log after the body of a call of the service with outcome r on the
\* row it loaded: logger.info after save(), logger.error in the handler of
\* "except Exception"
Logged(log, c, row, r) ==
  LET reapproving == /\ c.op = "approve" /\ row.status = "CANCELLED"
                     /\ r.kind \notin {"Forbidden", "VersionConflict"}
      noted == IF reapproving
               THEN [log EXCEPT !.notes = @ \cup {c.id}] ELSE log
  IN IF r.saved
     THEN [noted EXCEPT !.audit =
             Append(@, [op |-> c.op, id |-> c.id, actor |-> c.user,
                        version |-> r.row.approval_version])]
     ELSE [noted EXCEPT !.errors = @ \cup {<<c.op, c.id>>}]

\* approve_submission lines 46-86 and 90-92 with their log lines
LoggedApproveBody(p) ==
  /\ pc[p] = "approve"
  /\ res' = [res EXCEPT ![p] =
               ApproveResult(obj[p], call[p].user, call[p].ev, now)]
  /\ trace' = Logged(trace, call[p], obj[p], res'[p])
  /\ now' = IF res'[p].saved THEN now + 1 ELSE now
  /\ pc' = [pc EXCEPT ![p] = "approve_exit"]
  /\ UNCHANGED <<db, product_category, farmer_location, lock, call, obj,
                 transitions, reverts>>

\* cancel_approval lines 115-151 and 155-157 with their log lines
LoggedCancelBody(p) ==
  /\ pc[p] = "cancel"
  /\ res' = [res EXCEPT ![p] = CancelResult(obj[p], call[p].user, call[p].ev)]
  /\ trace' = Logged(trace, call[p], obj[p], res'[p])
  /\ pc' = [pc EXCEPT ![p] = "cancel_exit"]
  /\ UNCHANGED <<db, product_category, farmer_location, lock, call, obj, now,
                 transitions, reverts>>

NextAudit ==
  \E p \in Procs :
    \/ ApproveGet(p)
    \/ LoggedApproveBody(p)
    \/ ApproveExit(p)
    \/ CancelGet(p)
    \/ LoggedCancelBody(p)
    \/ CancelExit(p)
    \/ DisapproveGet(p)
    \/ DisapproveSave(p)

\* the workflow operations with the log they write
SpecAudit == AuditInit /\ [][NextAudit]_vars

\* C24: every successful workflow transition emits exactly one audit record
\* naming the actor, the submission id and the new approvalVersion, and a
\* failing call emits none: once every call has returned, the audit records
\* are as many as the committed transitions, and the last one names the
\* version stored by the last transition.
C24_OneAuditPerTransition ==
  (\A p \in Procs : pc[p] = "idle") =>
    /\ Len(trace.audit) = transitions[SubId] + reverts[SubId]
    /\ \A n \in 1 .. Len(trace.audit) : trace.audit[n].id = SubId

\* ------------------------------------------------ precedence of errors
\* the preconditions of approve that fail for process p at the end of the
\* body of its call, each taken by itself, numbered in the order NotFound,
\* Forbidden, VersionConflict, AlreadyApproved, FirmMismatch
FailingChecks(p) ==
  IF call[p].id \notin DOMAIN db THEN {1}
  ELSE LET row == obj[p]
           u == call[p].user
       IN {n \in 2 .. 5 :
             \/ n = 2 /\ ~(UserTable[u].is_superuser \/
                           (UserTable[u].has_profile /\ is_business_head(u)))
             \/ n = 3 /\ call[p].ev # NoInt /\ call[p].ev # row.approval_version
             \/ n = 4 /\ row.status = "APPROVED"
             \/ n = 5 /\ ~UserTable[u].is_superuser
                      /\ (~UserTable[u].has_profile
                          \/ UserTable[u].firm = None
                          \/ UserTable[u].firm # row.firm)}

\* the errors of the check numbered n; the firm check has two messages, for a
\* firm that differs and for a profile without firm
ErrorsOfCheck(n) ==
  CASE n = 1 -> {"NotFound"}
    [] n = 2 -> {"Forbidden"}
    [] n = 3 -> {"VersionConflict"}
    [] n = 4 -> {"AlreadyApproved"}
    [] n = 5 -> {"FirmMismatch", "ProfileNotConfigured"}

\* C25: when several preconditions of approve fail at once, the error
\* returned is that of the earliest failing check in the order NotFound,
\* Forbidden, VersionConflict, AlreadyApproved, FirmMismatch; when none
\* fails, none of these errors is returned.
C25_ErrorPrecedence ==
  \A p \in Procs :
    pc[p] = "approve_exit" =>
      LET F == FailingChecks(p)
      IN IF F = {}
         THEN res[p].kind \in {"OK", "ValidationError"}
         ELSE \E n \in F : /\ \A m \in F : n <= m
                           /\ res[p].kind \in ErrorsOfCheck(n)

\* a business head of another firm approves an APPROVED submission with a
\* stale expected version: the version, the status and the firm checks all
\* fail, and the call is about to return VersionConflict
C25_Witness ==
  \E p \in Procs :
    /\ pc[p] = "approve_exit"
    /\ FailingChecks(p) = {3, 4, 5}
    /\ call[p].user = "b2"
    /\ res[p].kind = "VersionConflict"

\* ------------------------------------------- approving a listed submission
\* the user who was just given the list of get_approvable_submissions calls
\* approve_submission on one of its submissions, without expected version,
\* before anything else happens; the whole call, with its commit, and its
\* outcome recorded
ApproveListed ==
  /\ trace # <<>>
  /\ trace[1].op = "list"
  /\ \E i \in trace[1].result :
       LET u == trace[1].user
           r == ApproveResult(db[i], u, NoInt, now)
       IN /\ db' = AtomicExit(db, i, r)
          /\ transitions' = IF r.saved
                            THEN [transitions EXCEPT ![i] = @ + 1]
                            ELSE transitions
          /\ now' = IF r.saved THEN now + 1 ELSE now
          /\ trace' = << [op |-> "approve_listed", id |-> i, user |-> u,
                          result |-> r.kind] >>
  /\ UNCHANGED <<product_category, farmer_location, lock, pc, call, obj, res,
                 reverts>>

NextListed == ListApprovableQuery \/ ApproveListed

\* a user lists the approvable submissions and approves one of them
SpecListed == StoreInit /\ [][NextListed]_vars

\* C26: every submission returned by get_approvable_submissions(user) is one
\* the user can approve: approve on it as that user without expectedVersion,
\* with no other operation in between, succeeds.
C26_ListedIsApprovable ==
  (trace # <<>> /\ trace[1].op = "approve_listed") => trace[1].result = "OK"

\* ---------------------------------------------------------- re-validation
\* an administrator moves the product to a category, or the farmer to a
\* location, in the admin site (ProductAdmin, FarmerAdmin)
ReferenceEdit ==
  /\ \/ \E c \in Categories :
          /\ product_category' = [product_category EXCEPT !["tomato"] = c]
          /\ UNCHANGED farmer_location
     \/ \E l \in Locations :
          /\ farmer_location' = [farmer_location EXCEPT !["ravi"] = l]
          /\ UNCHANGED product_category
  /\ UNCHANGED <<db, lock, pc, call, obj, res, now, transitions, reverts,
                 trace>>

NextRevalidate ==
  \/ ReferenceEdit
  \/ \E p \in Procs :
       \/ ApproveGet(p)
       \/ ApproveBody(p)
       \/ ApproveExit(p)
       \/ CancelGet(p)
       \/ CancelBody(p)
       \/ CancelExit(p)

\* approve and cancel_approval while the reference data changes
SpecRevalidate == Init /\ [][NextRevalidate]_vars

\* C27: approve and cancelApproval re-validate the submission before
\* committing: when the stored submission's product no longer belongs to its
\* category, or its farmer no longer belongs to its location, the call fails
\* with an error, and status, approvedBy, approvedAt and approvalVersion all
\* keep their previous values.
C27_Revalidates ==
  [][\A p \in Procs :
       /\ ( /\ pc[p] \in {"approve", "cancel"}
            /\ pc'[p] \in {"approve_exit", "cancel_exit"}
            /\ clean(obj[p]) # "ok"
            => res'[p].kind # "OK" /\ ~res'[p].saved )
       /\ ( /\ pc[p] \in {"approve_exit", "cancel_exit"}
            /\ Ends(p)
            /\ ~res[p].saved
            /\ call[p].id \in DOMAIN db
            => Workflow(db'[call[p].id]) = Workflow(db[call[p].id]) )]_vars

\* a cancel by a permitted user of an APPROVED submission whose farmer was
\* moved to another location after the approval has raised the validation
\* error and is about to leave its atomic block
C27_Witness ==
  \E p \in Procs :
    /\ pc[p] = "cancel_exit"
    /\ call[p].id = SubId
    /\ obj[p].status = "APPROVED"
    /\ db[SubId] = obj[p]
    /\ clean(obj[p]) = "farmer"
    /\ res[p].kind = "ValidationError"

\* ------------------------------------------------- approver and status
\* C28: at every reachable state under any interleaving of approve,
\* cancelApproval and disapprove, a submission has approvedBy and approvedAt
\* set if and only if its status is APPROVED; PENDING and CANCELLED
\* submissions have both cleared.
C28_ApproverIffApproved ==
  \A i \in DOMAIN db :
    IF db[i].status = "APPROVED"
    THEN db[i].approved_by # None /\ db[i].approved_at # NoInt
    ELSE db[i].approved_by = None /\ db[i].approved_at = NoInt

\* a disapprove that read the submission while it was APPROVED has written
\* its copy over a later transition: the stored row is PENDING with no
\* approver, at a version lower than the number of committed transitions
C28_Witness ==
  /\ reverts[SubId] = 1
  /\ db[SubId].status = "PENDING"
  /\ db[SubId].approval_version < transitions[SubId]
  /\ db[SubId].approved_by = None

\* ------------------------------------------------- concurrent batches
\* the callers of the concurrent calls: a superuser, a business head of the
\* firm of the submissions, a business head of another firm
LiveUsers == {"su", "b1", "b2"}

\* two stored valid submissions of firm F1, the first PENDING, the second in
\* any status
LiveInit ==
  /\ \E st \in Statuses :
       db = (SubId :> StoredSubmission("F1", "PENDING", 1)) @@
            (OtherId :> StoredSubmission("F1", st, 2))
  /\ product_category = [x \in Products |-> "veg"]
  /\ farmer_location = [x \in Farmers |-> "north"]
  /\ lock = [i \in RowIds |-> None]
  /\ pc = [p \in Procs |-> "idle"]
  /\ call = [p \in Procs |-> NoCall]
  /\ obj = [p \in Procs |-> NoRow]
  /\ res = [p \in Procs |-> NoRes]
  /\ now = 2
  /\ transitions = [i \in RowIds |-> db[i].approval_version]
  /\ reverts = [i \in RowIds |-> 0]
  /\ trace = <<>>

\* the lists of ids of S that name no id twice: the checked rows of the
\* approval list, in any order
DistinctLists(S) ==
  {ids \in SeqsUpTo(S, Cardinality(S)) :
     \A m, n \in 1 .. Len(ids) : ids[m] = ids[n] => m = n}

\* as many calls are issued in all as there are clients
CallsLeft ==
  Len(trace) + Cardinality({q \in Procs : pc[q] # "idle"}) < Cardinality(Procs)

\* bulk_approve_submissions lines 205-222 posted by a business head or an
\* admin with a list of ids of stored submissions, while other calls may be
\* running
LiveBulkBegin(p) ==
  /\ pc[p] = "idle"
  /\ CallsLeft
  /\ \E u \in LiveUsers, ids \in DistinctLists(RowIds) :
       /\ UserTable[u].has_profile
       /\ is_business_head(u) \/ is_admin(u)
       /\ call' = [call EXCEPT ![p] =
                     [op |-> "bulk", id |-> NoInt, user |-> u,
                      ev |-> NoInt, ids |-> ids, k |-> 1,
                      supplied |-> Len(ids),
                      selected |-> {ids[n] : n \in 1 .. Len(ids)},
                      success_count |-> 0, error_count |-> 0]]
       /\ pc' = [pc EXCEPT ![p] = "bulk"]
  /\ UNCHANGED <<db, product_category, farmer_location, lock, obj, res, now,
                 transitions, reverts, trace>>

\* a client issues an approve_submission or a cancel_approval call on a
\* stored submission, without expected version
LiveCallBegin(p) ==
  /\ pc[p] = "idle"
  /\ CallsLeft
  /\ \E op \in {"approve", "cancel"}, id \in DOMAIN db, u \in LiveUsers :
       /\ call' = [call EXCEPT ![p] =
                     [op |-> op, id |-> id, user |-> u, ev |-> NoInt]]
       /\ pc' = [pc EXCEPT ![p] = op \o "_wait"]
  /\ UNCHANGED <<db, product_category, farmer_location, lock, obj, res, now,
                 transitions, reverts, trace>>

\* approve_submission line 44 and cancel_approval line 113, once the row
\* lock is free
LiveGet(p) ==
  /\ pc[p] \in {"approve_wait", "cancel_wait"}
  /\ LockedGet(p, call[p], call[p].op)
  /\ UNCHANGED <<db, product_category, farmer_location, now, transitions,
                 reverts, trace>>

\* the atomic block of the approve_submission or cancel_approval call exits,
\* the row lock is released and the call returns; its outcome is recorded
LiveExit(p) ==
  /\ pc[p] \in {"approve_exit", "cancel_exit"}
  /\ db' = AtomicExit(db, call[p].id, res[p])
  /\ transitions' = IF res[p].saved
                    THEN [transitions EXCEPT ![call[p].id] = @ + 1]
                    ELSE transitions
  /\ lock' = [i \in DOMAIN lock |-> IF lock[i] = p THEN None ELSE lock[i]]
  /\ trace' = Append(trace,
                [op |-> call[p].op, user |-> call[p].user,
                 ids |-> <<call[p].id>>, supplied |-> 1,
                 success_count |-> IF res[p].kind = "OK" THEN 1 ELSE 0,
                 error_count |-> IF res[p].kind = "OK" THEN 0 ELSE 1])
  /\ Return(p)
  /\ UNCHANGED <<product_category, farmer_location, now, reverts>>

NextLive ==
  \E p \in Procs :
    \/ LiveBulkBegin(p)
    \/ BulkItem(p)
    \/ BulkBody(p)
    \/ BulkItemExit(p)
    \/ BulkReturn(p)
    \/ LiveCallBegin(p)
    \/ LiveGet(p)
    \/ ApproveBody(p)
    \/ CancelBody(p)
    \/ LiveExit(p)

\* concurrent batches, approve and cancel calls
SpecCalls == LiveInit /\ [][NextLive]_vars

\* the next step of the call client p has issued
CallStep(p) ==
  \/ BulkItem(p)
  \/ BulkBody(p)
  \/ BulkItemExit(p)
  \/ BulkReturn(p)
  \/ LiveGet(p)
  \/ ApproveBody(p)
  \/ CancelBody(p)
  \/ LiveExit(p)

\* weak fairness of the step of every call: a transaction that holds a row
\* lock goes on to its commit or rollback, a loop goes on to its next item,
\* and a transaction waiting for a row lock gets it once the lock stays free
LiveFairness == \A p \in Procs : WF_vars(CallStep(p))

SpecLive == SpecCalls /\ LiveFairness

\* C29: concurrent approve, cancelApproval and bulk approve calls never
\* deadlock: two bulk approvals over overlapping id lists in opposite orders
\* both finish, and every call that was issued eventually returns, provided
\* each lock holder eventually commits or aborts.
C29_EveryCallReturns ==
  \A p \in Procs : (pc[p] # "idle") ~> (pc[p] = "idle")

\* two batches over the same two submissions in opposite orders: one holds
\* the lock of its first item while the other, past its own first item, is
\* waiting for that lock
C29_Witness ==
  \E p, q \in Procs :
    /\ pc[p] = "bulk_approve" /\ call[p].ids = <<SubId, OtherId>>
    /\ call[p].k = 1 /\ lock[SubId] = p
    /\ pc[q] = "bulk" /\ call[q].ids = <<OtherId, SubId>>
    /\ call[q].k = 2

\* ------------------------------------------- the views' expected_version
\* texts a client may post as expected_version; request.POST.get gives None
\* when the field is missing
PostedVersions == {None, "", "abc", "1.0", "0", "1", " 1", "2"}

\* Python int() on the texts it accepts: digits, with surrounding blanks
IntOfText == ("0" :> 0) @@ ("1" :> 1) @@ (" 1" :> 1) @@ ("2" :> 2)

\* the empty string as the service sees it: a value that is not None and
\* that equals no approval_version
EmptyText == -2

\* views/approvals.py lines 30-35 and 149-154: the value the view passes as
\* expected_version.  A posted text that is truthy is converted by int(),
\* with None on ValueError; None and the empty string, which are falsy, are
\* passed as they are.
ViewExpectedVersion(posted) ==
  IF posted = None THEN NoInt
  ELSE IF posted = "" THEN EmptyText
  ELSE IF posted \in DOMAIN IntOfText THEN IntOfText[posted]
  ELSE NoInt

\* the approve_submission view, POST: get_object_or_404, the can_approve
\* check of the view, the expected version, the call of the service with its
\* commit, and the message shown
ViewApprove ==
  /\ \A i \in DOMAIN db : transitions[i] < MaxTransitions
  /\ \E i \in DOMAIN db, u \in Users, posted \in PostedVersions :
       IF ~can_approve(db[i], u)
       THEN /\ trace' = << [op |-> "approve", id |-> i, user |-> u,
                            posted |-> posted, passed |-> NoInt,
                            kind |-> "Redirected"] >>
            /\ UNCHANGED <<db, transitions, now>>
       ELSE LET ev == ViewExpectedVersion(posted)
                r == ApproveResult(db[i], u, ev, now)
            IN /\ db' = AtomicExit(db, i, r)
               /\ transitions' = IF r.saved
                                 THEN [transitions EXCEPT ![i] = @ + 1]
                                 ELSE transitions
               /\ now' = IF r.saved THEN now + 1 ELSE now
               /\ trace' = << [op |-> "approve", id |-> i, user |-> u,
                               posted |-> posted, passed |-> ev,
                               kind |-> r.kind] >>
  /\ UNCHANGED <<product_category, farmer_location, lock, pc, call, obj, res,
                 reverts>>

\* the cancel_approval view, POST: as the approve view, with the check of the
\* status of the row the view loaded before the call of the service
ViewCancel ==
  /\ \A i \in DOMAIN db : transitions[i] < MaxTransitions
  /\ \E i \in DOMAIN db, u \in Users, posted \in PostedVersions :
       IF ~can_approve(db[i], u) \/ db[i].status # "APPROVED"
       THEN /\ trace' = << [op |-> "cancel", id |-> i, user |-> u,
                            posted |-> posted, passed |-> NoInt,
                            kind |-> "Redirected"] >>
            /\ UNCHANGED <<db, transitions>>
       ELSE LET ev == ViewExpectedVersion(posted)
                r == CancelResult(db[i], u, ev)
            IN /\ db' = AtomicExit(db, i, r)
               /\ transitions' = IF r.saved
                                 THEN [transitions EXCEPT ![i] = @ + 1]
                                 ELSE transitions
               /\ trace' = << [op |-> "cancel", id |-> i, user |-> u,
                               posted |-> posted, passed |-> ev,
                               kind |-> r.kind] >>
  /\ UNCHANGED <<product_category, farmer_location, lock, pc, call, obj, res,
                 now, reverts>>

NextView == ViewApprove \/ ViewCancel

\* the approve and cancel views, one request at a time
SpecView == Init /\ [][NextView]_vars

\* C30: the approve and cancel request handlers pass to the service either
\* the integer the client sent as expected_version or no version at all: a
\* request whose expected_version is missing, empty or not an integer is
\* processed without a version check and is never rejected as a version
\* conflict.
C30_VersionOrNone ==
  (trace # <<>> /\ trace[1].kind # "Redirected") =>
    IF trace[1].posted \in DOMAIN IntOfText
    THEN trace[1].passed = IntOfText[trace[1].posted]
    ELSE trace[1].passed = NoInt /\ trace[1].kind # "VersionConflict"

====
